---- MODULE Spec2Model ----
(***************************************************************************)
(* The lexical text-processing engine of the SuperDB language server:     *)
(* tokenize and formatTokens (lsp/format.go) and the deprecated-syntax    *)
(* scanner with its code actions (lsp/migration.go).                      *)
(*                                                                         *)
(* A Go string is modelled as a sequence of byte values (0..255); Go's    *)
(* zero-based index text[i] is At(text, i) and text[a:b] is               *)
(* Slice(text, a, b).                                                     *)
(***************************************************************************)
EXTENDS Integers, Sequences, FiniteSets, TLC

VARIABLES
    text,        \* the document handed to formatDocument / getCodeActionsForDiagnostics
    options,     \* FormattingOptions
    pc,          \* position in the call: which loop is running
    i,           \* tokenize: scan position
    tokens,      \* tokenize: tokens appended so far
    resets,      \* tokenize: positions at which a failed regex scan reset i (line 127)
    k,           \* formatTokens: number of tokens consumed by the range loop
    result,      \* formatTokens: strings.Builder contents, then the returned string
    indent,      \* formatTokens: indent depth
    lineStart,   \* formatTokens: line-start flag
    prevTok,     \* formatTokens: previous token
    firstLine,   \* how many empty lines the document has before text
    request,     \* the diagnostics the client asks code actions for
    lineNum,     \* getMigrationDiagnostics: index of the next line to scan
    diagnostics, \* getMigrationDiagnostics: MigrationDiagnostics appended so far
    actions,     \* getCodeActionsForDiagnostics: returned code actions
    doc,         \* the client's copy of the document while it applies the fix-all edits
    applied,     \* how many of the fix-all edits the client has applied
    outOfRange,  \* TRUE once the client met an edit whose range left its line
    documents,   \* Server.documents: the map from URI to content
    received,    \* the notifications and requests the server has handled, oldest first
    sent         \* the results of the responses the server has returned, oldest first

vars == <<text, options, pc, i, tokens, resets, k, result, indent, lineStart, prevTok,
          firstLine, request, lineNum, diagnostics, actions, doc, applied, outOfRange,
          documents, received, sent>>

lexVars == <<i, tokens, resets>>
fmtVars == <<k, result, indent, lineStart, prevTok>>
migVars == <<firstLine, request, lineNum, diagnostics, actions, doc, applied, outOfRange>>
srvVars == <<documents, received, sent>>

-----------------------------------------------------------------------------
(* Bytes and strings                                                       *)

\* The printable ASCII characters 0x20..0x5F and 0x61..0x7E, in byte order.
PrintableLow == " !\"#$%&'()*+,-./0123456789:;<=>?@ABCDEFGHIJKLMNOPQRSTUVWXYZ[\\]^_"
PrintableHigh == "abcdefghijklmnopqrstuvwxyz{|}~"

\* The byte value of a one-character string (ASCII).
Ord == [c \in {SubSeq(PrintableLow, n, n) : n \in 1..Len(PrintableLow)}
              \cup {SubSeq(PrintableHigh, n, n) : n \in 1..Len(PrintableHigh)}
              \cup {"\n", "\t", "\r"} |->
          IF c = "\n" THEN 10
          ELSE IF c = "\t" THEN 9
          ELSE IF c = "\r" THEN 13
          ELSE IF \E n \in 1..Len(PrintableLow) : SubSeq(PrintableLow, n, n) = c
               THEN 31 + (CHOOSE n \in 1..Len(PrintableLow) : SubSeq(PrintableLow, n, n) = c)
               ELSE 96 + (CHOOSE n \in 1..Len(PrintableHigh) : SubSeq(PrintableHigh, n, n) = c)]

\* A string literal of the source as its bytes.
Bytes(s) == [n \in 1..Len(s) |-> Ord[SubSeq(s, n, n)]]

At(s, n) == s[n + 1]
Slice(s, a, b) == SubSeq(s, a + 1, b)
HasPrefixAt(s, n, p) == n + Len(p) <= Len(s) /\ \A c \in 1..Len(p) : s[n + c] = p[c]
HasSuffix(s, p) == Len(p) <= Len(s) /\ SubSeq(s, Len(s) - Len(p) + 1, Len(s)) = p

\* What an operator gives in place of a result when the code panics: a
\* sequence that is no byte string.
Panic == <<-1>>

\* strings.Repeat: it panics on a negative count.
RECURSIVE Repeat(_, _)
Repeat(s, n) ==
    IF n < 0 THEN Panic ELSE IF n = 0 THEN <<>> ELSE s \o Repeat(s, n - 1)

RECURSIVE Concat(_)
Concat(ss) == IF ss = <<>> THEN <<>> ELSE Head(ss) \o Concat(Tail(ss))

chNL == 10
chSP == 32
chTab == 9
chCR == 13
chDash == 45
chSlash == 47
chStar == 42
chDQuote == 34
chSQuote == 39
chBackslash == 92
chPipe == 124
chGT == 62
chLT == 60
chDot == 46
chColon == 58
chBacktick == 96
chUnderscore == 95
chLParen == 40
chRParen == 41

\* string(ch) for a byte ch: Go converts the integer to the UTF-8 encoding of
\* the code point with that number, two bytes for 0x80..0xFF.
byteToString(ch) ==
    IF ch < 128 THEN <<ch>> ELSE <<192 + (ch \div 64), 128 + (ch % 64)>>

isDigit(ch) == ch >= Ord["0"] /\ ch <= Ord["9"]
isHexDigit(ch) ==
    \/ isDigit(ch)
    \/ (ch >= Ord["a"] /\ ch <= Ord["f"])
    \/ (ch >= Ord["A"] /\ ch <= Ord["F"])
isLetter(ch) ==
    \/ (ch >= Ord["a"] /\ ch <= Ord["z"])
    \/ (ch >= Ord["A"] /\ ch <= Ord["Z"])

\* string(rune(n)) for n below 2^31, where rune(n) is n: the UTF-8 encoding of
\* code point n, and that of U+FFFD for a surrogate or a value past 0x10FFFF.
runeString(n) ==
    LET r == IF n < 0 \/ n > 1114111 \/ (n >= 55296 /\ n <= 57343) THEN 65533 ELSE n
    IN  IF r < 128 THEN <<r>>
        ELSE IF r < 2048 THEN <<192 + (r \div 64), 128 + (r % 64)>>
        ELSE IF r < 65536
             THEN <<224 + (r \div 4096), 128 + ((r \div 64) % 64), 128 + (r % 64)>>
             ELSE <<240 + (r \div 262144), 128 + ((r \div 4096) % 64),
                    128 + ((r \div 64) % 64), 128 + (r % 64)>>

\* utf8.DecodeRuneInString(s[n:]): the rune at offset n of s and its width in
\* bytes; a byte that starts no valid encoding is U+FFFD of width 1.
decodeRune(s, n) ==
    LET len == Len(s) - n
        b0 == At(s, n)
        b1 == At(s, n + 1)
        b2 == At(s, n + 2)
        b3 == At(s, n + 3)
        cont(b) == b >= 128 /\ b <= 191
        invalid == [rune |-> 65533, width |-> 1]
    IN  IF b0 < 128 THEN [rune |-> b0, width |-> 1]
        ELSE IF b0 >= 194 /\ b0 <= 223
             THEN IF len >= 2 /\ cont(b1)
                  THEN [rune |-> (b0 - 192) * 64 + (b1 - 128), width |-> 2]
                  ELSE invalid
        ELSE IF b0 >= 224 /\ b0 <= 239
             THEN IF /\ len >= 3
                     /\ b1 >= (IF b0 = 224 THEN 160 ELSE 128)
                     /\ b1 <= (IF b0 = 237 THEN 159 ELSE 191)
                     /\ cont(b2)
                  THEN [rune |-> (b0 - 224) * 4096 + (b1 - 128) * 64 + (b2 - 128),
                        width |-> 3]
                  ELSE invalid
        ELSE IF b0 >= 240 /\ b0 <= 244
             THEN IF /\ len >= 4
                     /\ b1 >= (IF b0 = 240 THEN 144 ELSE 128)
                     /\ b1 <= (IF b0 = 244 THEN 143 ELSE 191)
                     /\ cont(b2) /\ cont(b3)
                  THEN [rune |-> (b0 - 240) * 262144 + (b1 - 128) * 4096
                                 + (b2 - 128) * 64 + (b3 - 128),
                        width |-> 4]
                  ELSE invalid
        ELSE invalid

\* The lower-case mappings of unicode.CaseRanges for the runes above ASCII
\* (Unicode 15.0.0): <<lo, hi, stride, delta>> says that the runes lo,
\* lo + stride, ... up to hi have the lower case rune + delta.
caseRanges ==
    {<<192, 214, 1, 32>>, <<216, 222, 1, 32>>, <<256, 302, 2, 1>>, <<304, 304, 1, -199>>,
     <<306, 310, 2, 1>>, <<313, 327, 2, 1>>, <<330, 374, 2, 1>>, <<376, 376, 1, -121>>,
     <<377, 381, 2, 1>>, <<385, 385, 1, 210>>, <<386, 388, 2, 1>>, <<390, 390, 1, 206>>,
     <<391, 391, 1, 1>>, <<393, 394, 1, 205>>, <<395, 395, 1, 1>>, <<398, 398, 1, 79>>,
     <<399, 399, 1, 202>>, <<400, 400, 1, 203>>, <<401, 401, 1, 1>>, <<403, 403, 1, 205>>,
     <<404, 404, 1, 207>>, <<406, 406, 1, 211>>, <<407, 407, 1, 209>>, <<408, 408, 1, 1>>,
     <<412, 412, 1, 211>>, <<413, 413, 1, 213>>, <<415, 415, 1, 214>>, <<416, 420, 2, 1>>,
     <<422, 422, 1, 218>>, <<423, 423, 1, 1>>, <<425, 425, 1, 218>>, <<428, 428, 1, 1>>,
     <<430, 430, 1, 218>>, <<431, 431, 1, 1>>, <<433, 434, 1, 217>>, <<435, 437, 2, 1>>,
     <<439, 439, 1, 219>>, <<440, 440, 1, 1>>, <<444, 444, 1, 1>>, <<452, 452, 1, 2>>,
     <<453, 453, 1, 1>>, <<455, 455, 1, 2>>, <<456, 456, 1, 1>>, <<458, 458, 1, 2>>,
     <<459, 475, 2, 1>>, <<478, 494, 2, 1>>, <<497, 497, 1, 2>>, <<498, 500, 2, 1>>,
     <<502, 502, 1, -97>>, <<503, 503, 1, -56>>, <<504, 542, 2, 1>>, <<544, 544, 1, -130>>,
     <<546, 562, 2, 1>>, <<570, 570, 1, 10795>>, <<571, 571, 1, 1>>, <<573, 573, 1, -163>>,
     <<574, 574, 1, 10792>>, <<577, 577, 1, 1>>, <<579, 579, 1, -195>>,
     <<580, 580, 1, 69>>, <<581, 581, 1, 71>>, <<582, 590, 2, 1>>, <<880, 882, 2, 1>>,
     <<886, 886, 1, 1>>, <<895, 895, 1, 116>>, <<902, 902, 1, 38>>, <<904, 906, 1, 37>>,
     <<908, 908, 1, 64>>, <<910, 911, 1, 63>>, <<913, 929, 1, 32>>, <<931, 939, 1, 32>>,
     <<975, 975, 1, 8>>, <<984, 1006, 2, 1>>, <<1012, 1012, 1, -60>>, <<1015, 1015, 1, 1>>,
     <<1017, 1017, 1, -7>>, <<1018, 1018, 1, 1>>, <<1021, 1023, 1, -130>>,
     <<1024, 1039, 1, 80>>, <<1040, 1071, 1, 32>>, <<1120, 1152, 2, 1>>,
     <<1162, 1214, 2, 1>>, <<1216, 1216, 1, 15>>, <<1217, 1229, 2, 1>>,
     <<1232, 1326, 2, 1>>, <<1329, 1366, 1, 48>>, <<4256, 4293, 1, 7264>>,
     <<4295, 4295, 1, 7264>>, <<4301, 4301, 1, 7264>>, <<5024, 5103, 1, 38864>>,
     <<5104, 5109, 1, 8>>, <<7312, 7354, 1, -3008>>, <<7357, 7359, 1, -3008>>,
     <<7680, 7828, 2, 1>>, <<7838, 7838, 1, -7615>>, <<7840, 7934, 2, 1>>,
     <<7944, 7951, 1, -8>>, <<7960, 7965, 1, -8>>, <<7976, 7983, 1, -8>>,
     <<7992, 7999, 1, -8>>, <<8008, 8013, 1, -8>>, <<8025, 8031, 2, -8>>,
     <<8040, 8047, 1, -8>>, <<8072, 8079, 1, -8>>, <<8088, 8095, 1, -8>>,
     <<8104, 8111, 1, -8>>, <<8120, 8121, 1, -8>>, <<8122, 8123, 1, -74>>,
     <<8124, 8124, 1, -9>>, <<8136, 8139, 1, -86>>, <<8140, 8140, 1, -9>>,
     <<8152, 8153, 1, -8>>, <<8154, 8155, 1, -100>>, <<8168, 8169, 1, -8>>,
     <<8170, 8171, 1, -112>>, <<8172, 8172, 1, -7>>, <<8184, 8185, 1, -128>>,
     <<8186, 8187, 1, -126>>, <<8188, 8188, 1, -9>>, <<8486, 8486, 1, -7517>>,
     <<8490, 8490, 1, -8383>>, <<8491, 8491, 1, -8262>>, <<8498, 8498, 1, 28>>,
     <<8544, 8559, 1, 16>>, <<8579, 8579, 1, 1>>, <<9398, 9423, 1, 26>>,
     <<11264, 11311, 1, 48>>, <<11360, 11360, 1, 1>>, <<11362, 11362, 1, -10743>>,
     <<11363, 11363, 1, -3814>>, <<11364, 11364, 1, -10727>>, <<11367, 11371, 2, 1>>,
     <<11373, 11373, 1, -10780>>, <<11374, 11374, 1, -10749>>, <<11375, 11375, 1, -10783>>,
     <<11376, 11376, 1, -10782>>, <<11378, 11378, 1, 1>>, <<11381, 11381, 1, 1>>,
     <<11390, 11391, 1, -10815>>, <<11392, 11490, 2, 1>>, <<11499, 11501, 2, 1>>,
     <<11506, 11506, 1, 1>>, <<42560, 42604, 2, 1>>, <<42624, 42650, 2, 1>>,
     <<42786, 42798, 2, 1>>, <<42802, 42862, 2, 1>>, <<42873, 42875, 2, 1>>,
     <<42877, 42877, 1, -35332>>, <<42878, 42886, 2, 1>>, <<42891, 42891, 1, 1>>,
     <<42893, 42893, 1, -42280>>, <<42896, 42898, 2, 1>>, <<42902, 42920, 2, 1>>,
     <<42922, 42922, 1, -42308>>, <<42923, 42923, 1, -42319>>, <<42924, 42924, 1, -42315>>,
     <<42925, 42925, 1, -42305>>, <<42926, 42926, 1, -42308>>, <<42928, 42928, 1, -42258>>,
     <<42929, 42929, 1, -42282>>, <<42930, 42930, 1, -42261>>, <<42931, 42931, 1, 928>>,
     <<42932, 42946, 2, 1>>, <<42948, 42948, 1, -48>>, <<42949, 42949, 1, -42307>>,
     <<42950, 42950, 1, -35384>>, <<42951, 42953, 2, 1>>, <<42960, 42960, 1, 1>>,
     <<42966, 42968, 2, 1>>, <<42997, 42997, 1, 1>>, <<65313, 65338, 1, 32>>,
     <<66560, 66599, 1, 40>>, <<66736, 66771, 1, 40>>, <<66928, 66938, 1, 39>>,
     <<66940, 66954, 1, 39>>, <<66956, 66962, 1, 39>>, <<66964, 66965, 1, 39>>,
     <<68736, 68786, 1, 64>>, <<71840, 71871, 1, 32>>, <<93760, 93791, 1, 32>>,
     <<125184, 125217, 1, 34>>}

\* unicode.ToLower: the ASCII letters directly, every other rune by
\* caseRanges; a rune without a lower-case mapping is given back as it is.
lowerRune(r) ==
    IF r < 128 THEN (IF r >= 65 /\ r <= 90 THEN r + 32 ELSE r)
    ELSE LET hits == {c \in caseRanges : r >= c[1] /\ r <= c[2] /\ (r - c[1]) % c[3] = 0}
         IN  IF hits = {} THEN r ELSE r + (CHOOSE c \in hits : TRUE)[4]

\* strings.Map(unicode.ToLower, s) from offset n on: each rune lowered and
\* encoded again, each invalid byte replaced by the encoding of U+FFFD.
RECURSIVE toLowerFrom(_, _)
toLowerFrom(s, n) ==
    IF n >= Len(s) THEN <<>>
    ELSE LET d == decodeRune(s, n)
         IN  runeString(lowerRune(d.rune)) \o toLowerFrom(s, n + d.width)

\* strings.ToLower
toLower(s) == toLowerFrom(s, 0)

formattingKeywords == {
    Bytes("select"), Bytes("from"), Bytes("where"), Bytes("group"), Bytes("by"),
    Bytes("having"), Bytes("order"), Bytes("limit"), Bytes("offset"), Bytes("with"),
    Bytes("join"), Bytes("inner"), Bytes("left"), Bytes("right"), Bytes("outer"),
    Bytes("full"), Bytes("cross"), Bytes("anti"), Bytes("on"), Bytes("using"),
    Bytes("and"), Bytes("or"), Bytes("not"), Bytes("in"), Bytes("like"), Bytes("is"),
    Bytes("between"), Bytes("case"), Bytes("when"), Bytes("then"), Bytes("else"),
    Bytes("end"), Bytes("as"), Bytes("distinct"), Bytes("all"), Bytes("union"),
    Bytes("const"), Bytes("fn"), Bytes("op"), Bytes("type"), Bytes("let"),
    Bytes("true"), Bytes("false"), Bytes("null"), Bytes("asc"), Bytes("desc") }

isKeyword(word) == toLower(word) \in formattingKeywords

-----------------------------------------------------------------------------
(* Tokens                                                                  *)

Token(typ, value) == [typ |-> typ, value |-> value]

\* token{}: the zero value, typ 0 (tokWhitespace) and the empty string.
zeroToken == Token("tokWhitespace", <<>>)

strLParen == Bytes("(")
strRParen == Bytes(")")
strLBracket == Bytes("[")
strRBracket == Bytes("]")
strLBrace == Bytes("{")
strRBrace == Bytes("}")
strComma == Bytes(",")
strColon == Bytes(":")
strDot == Bytes(".")

canPrecedeRegex(tok) ==
    CASE tok.typ \in {"tokWhitespace", "tokNewline", "tokPipe", "tokOperator"} -> TRUE
      [] tok.typ = "tokPunctuation" ->
            tok.value \in {strLParen, strLBracket, strComma, strColon}
      [] tok.typ = "tokKeyword" -> TRUE
      [] OTHER -> FALSE

needsSpaceBefore(prev) ==
    CASE prev.typ \in {"tokWhitespace", "tokNewline", "tokPipe"} -> FALSE
      [] prev.typ = "tokPunctuation" ->
            prev.value \notin {strLParen, strLBracket, strDot, strColon}
      [] prev.typ = "tokOperator" ->
            prev.value \notin {strDot, Bytes("::"), Bytes("->")}
      [] OTHER -> TRUE

-----------------------------------------------------------------------------
(* tokenize: the inner loops, each returning the position at which it stops *)

\* for i < len(text) && (text[i] == ' ' || text[i] == '\t' || text[i] == '\r')
RECURSIVE scanWhitespace(_, _)
scanWhitespace(s, n) ==
    IF n < Len(s) /\ At(s, n) \in {chSP, chTab, chCR} THEN scanWhitespace(s, n + 1) ELSE n

\* for i < len(text) && text[i] != '\n'
RECURSIVE scanLineComment(_, _)
scanLineComment(s, n) ==
    IF n < Len(s) /\ At(s, n) # chNL THEN scanLineComment(s, n + 1) ELSE n

\* for i+1 < len(text) && !(text[i] == '*' && text[i+1] == '/')
RECURSIVE scanBlockCommentBody(_, _)
scanBlockCommentBody(s, n) ==
    IF n + 1 < Len(s) /\ ~(At(s, n) = chStar /\ At(s, n + 1) = chSlash)
    THEN scanBlockCommentBody(s, n + 1)
    ELSE n

\* The block comment branch from i += 2 on: the position after the comment.
scanBlockComment(s, start) ==
    LET n == scanBlockCommentBody(s, start + 2)
    IN  IF n + 1 < Len(s) THEN n + 2 ELSE n

\* for i < len(text) && text[i] != quote, a backslash skipping the byte after it
RECURSIVE scanStringBody(_, _, _)
scanStringBody(s, n, quote) ==
    IF n < Len(s) /\ At(s, n) # quote
    THEN IF At(s, n) = chBackslash /\ n + 1 < Len(s)
         THEN scanStringBody(s, n + 2, quote)
         ELSE scanStringBody(s, n + 1, quote)
    ELSE n

\* The string branch: the position after the string that starts at start.
scanString(s, start) ==
    LET ch == At(s, start)
        prefixed == ch = Ord["f"] \/ ch = Ord["r"]
        open == IF prefixed THEN start + 1 ELSE start
        quote == At(s, open)
        n == scanStringBody(s, open + 1, quote)
    IN  IF n < Len(s) THEN n + 1 ELSE n

\* for i < len(text) && text[i] != '/' && text[i] != '\n'
RECURSIVE scanRegexBody(_, _)
scanRegexBody(s, n) ==
    IF n < Len(s) /\ At(s, n) # chSlash /\ At(s, n) # chNL
    THEN IF At(s, n) = chBackslash /\ n + 1 < Len(s)
         THEN scanRegexBody(s, n + 2)
         ELSE scanRegexBody(s, n + 1)
    ELSE n

RECURSIVE scanHexDigits(_, _)
scanHexDigits(s, n) ==
    IF n < Len(s) /\ isHexDigit(At(s, n)) THEN scanHexDigits(s, n + 1) ELSE n

RECURSIVE scanDigitsAndDots(_, _)
scanDigitsAndDots(s, n) ==
    IF n < Len(s) /\ (isDigit(At(s, n)) \/ At(s, n) = chDot)
    THEN scanDigitsAndDots(s, n + 1)
    ELSE n

RECURSIVE scanDigits(_, _)
scanDigits(s, n) ==
    IF n < Len(s) /\ isDigit(At(s, n)) THEN scanDigits(s, n + 1) ELSE n

RECURSIVE scanLetters(_, _)
scanLetters(s, n) ==
    IF n < Len(s) /\ isLetter(At(s, n)) THEN scanLetters(s, n + 1) ELSE n

\* The number branch: the position after the number that starts at start.
scanNumber(s, start) ==
    LET isHex == At(s, start) = Ord["0"] /\ start + 1 < Len(s)
                 /\ At(s, start + 1) \in {Ord["x"], Ord["X"]}
        mantissa == scanDigitsAndDots(s, start)
        hasExp == mantissa < Len(s) /\ At(s, mantissa) \in {Ord["e"], Ord["E"]}
        sign == IF mantissa + 1 < Len(s) /\ At(s, mantissa + 1) \in {Ord["+"], chDash}
                THEN mantissa + 2
                ELSE mantissa + 1
        body == IF isHex THEN scanHexDigits(s, start + 2)
                ELSE IF hasExp THEN scanDigits(s, sign)
                ELSE mantissa
    IN  scanLetters(s, body)

RECURSIVE scanBacktick(_, _)
scanBacktick(s, n) ==
    IF n < Len(s) /\ At(s, n) # chBacktick THEN scanBacktick(s, n + 1) ELSE n

RECURSIVE scanWord(_, _)
scanWord(s, n) ==
    IF n < Len(s) /\ (isLetter(At(s, n)) \/ isDigit(At(s, n)) \/ At(s, n) = chUnderscore)
    THEN scanWord(s, n + 1)
    ELSE n

\* The identifier branch: the position after the word that starts at start.
scanIdentifier(s, start) ==
    IF At(s, start) = chBacktick
    THEN LET n == scanBacktick(s, start + 1) IN IF n < Len(s) THEN n + 1 ELSE n
    ELSE scanWord(s, start)

twoCharOperators == {Bytes(":="), Bytes("::"), Bytes("->"), Bytes("=="), Bytes("!="),
                     Bytes("<>"), Bytes("<="), Bytes(">="), Bytes("!~")}
singleCharOperators == {Ord[SubSeq("+-*/%<>=!~", n, n)] : n \in 1..10}
punctuationChars == {Ord[SubSeq("()[]{},:;.?", n, n)] : n \in 1..11}

-----------------------------------------------------------------------------
(* tokenize: one iteration of the scan loop                                 *)

\* What one iteration does: the token it appends, the position it leaves in i,
\* and whether a failed regex scan reset i to the slash on the way (line 127).
Scanned(typ, value, next, reset) ==
    [tok |-> Token(typ, value), next |-> next, reset |-> reset]

\* The regex branch is entered: a slash at start of input or after a token
\* that can precede a value.
regexStarts(s, n, toks) ==
    At(s, n) = chSlash /\ (Len(toks) = 0 \/ canPrecedeRegex(toks[Len(toks)]))

\* The regex scan found its closing slash before a newline or the end.
regexCloses(s, n) ==
    LET e == scanRegexBody(s, n + 1) IN e < Len(s) /\ At(s, e) = chSlash

\* Lines 130-238: pipes, operators, punctuation, numbers, identifiers and the
\* unknown byte, for the byte at n.
scanPlain(s, n, reset) ==
    LET ch == At(s, n)
        len == Len(s)
    IN  IF ch = chPipe THEN
            IF n + 1 < len /\ At(s, n + 1) = chGT
                THEN Scanned("tokPipe", Bytes("|>"), n + 2, reset)
            ELSE IF n + 1 < len /\ At(s, n + 1) = chPipe
                THEN Scanned("tokOperator", Bytes("||"), n + 2, reset)
            ELSE Scanned("tokPipe", Bytes("|"), n + 1, reset)
        ELSE IF n + 2 < len /\ Slice(s, n, n + 3) = Bytes("...")
            THEN Scanned("tokOperator", Bytes("..."), n + 3, reset)
        ELSE IF n + 1 < len /\ Slice(s, n, n + 2) \in twoCharOperators
            THEN Scanned("tokOperator", Slice(s, n, n + 2), n + 2, reset)
        ELSE IF ch \in singleCharOperators
            THEN Scanned("tokOperator", byteToString(ch), n + 1, reset)
        ELSE IF ch \in punctuationChars
            THEN Scanned("tokPunctuation", byteToString(ch), n + 1, reset)
        ELSE IF isDigit(ch) \/ (ch = chDot /\ n + 1 < len /\ isDigit(At(s, n + 1)))
            THEN LET e == scanNumber(s, n)
                 IN  Scanned("tokNumber", Slice(s, n, e), e, reset)
        ELSE IF isLetter(ch) \/ ch = chUnderscore \/ ch = chBacktick
            THEN LET e == scanIdentifier(s, n)
                     word == Slice(s, n, e)
                 IN  Scanned(IF isKeyword(word) THEN "tokKeyword" ELSE "tokIdentifier",
                             word, e, reset)
        ELSE Scanned("tokPunctuation", byteToString(ch), n + 1, reset)

isStringStart(s, n) ==
    LET ch == At(s, n)
    IN  \/ ch = chDQuote
        \/ ch = chSQuote
        \/ (ch \in {Ord["f"], Ord["r"]} /\ n + 1 < Len(s)
            /\ At(s, n + 1) \in {chDQuote, chSQuote})

\* The mutant of regexFallback: the slash is emitted but the position stays
\* where the reset put it.
regexFallbackNoAdvance(s, n) == Scanned("tokOperator", <<chSlash>>, n, TRUE)

\* The regex scan failed: i = start, and the slash falls through to the
\* branches below (lines 126-127, then 130-238).
regexFallback(s, n) == scanPlain(s, n, TRUE)

\* The body of "for i < len(text)" for the position n and the tokens so far.
tokenizeStep(s, n, toks) ==
    LET ch == At(s, n)
        len == Len(s)
    IN  IF ch = chNL
            THEN Scanned("tokNewline", Bytes("\n"), n + 1, FALSE)
        ELSE IF ch \in {chSP, chTab, chCR}
            THEN LET e == scanWhitespace(s, n)
                 IN  Scanned("tokWhitespace", Slice(s, n, e), e, FALSE)
        ELSE IF n + 1 < len /\ ch = chDash /\ At(s, n + 1) = chDash
            THEN LET e == scanLineComment(s, n)
                 IN  Scanned("tokComment", Slice(s, n, e), e, FALSE)
        ELSE IF n + 1 < len /\ ch = chSlash /\ At(s, n + 1) = chStar
            THEN LET e == scanBlockComment(s, n)
                 IN  Scanned("tokComment", Slice(s, n, e), e, FALSE)
        ELSE IF isStringStart(s, n)
            THEN LET e == scanString(s, n)
                 IN  Scanned("tokString", Slice(s, n, e), e, FALSE)
        ELSE IF regexStarts(s, n, toks)
            THEN IF regexCloses(s, n)
                 THEN LET e == scanRegexBody(s, n + 1) + 1
                      IN  Scanned("tokRegexp", Slice(s, n, e), e, FALSE)
                 ELSE regexFallback(s, n)
        ELSE scanPlain(s, n, FALSE)

\* tokenize(text): the loop run to its end.
RECURSIVE tokenizeFrom(_, _, _)
tokenizeFrom(s, n, toks) ==
    IF n < Len(s)
    THEN LET r == tokenizeStep(s, n, toks)
         IN  tokenizeFrom(s, r.next, Append(toks, r.tok))
    ELSE toks

tokenize(s) == tokenizeFrom(s, 0, <<>>)

\* The values of a token sequence, concatenated in order.
RECURSIVE tokenValues(_)
tokenValues(toks) ==
    IF toks = <<>> THEN <<>> ELSE Head(toks).value \o tokenValues(Tail(toks))

-----------------------------------------------------------------------------
(* formatTokens: one iteration of the range loop                            *)

\* indentStr: a tab, or TabSize spaces with InsertSpaces.
indentString(opts) ==
    IF opts.InsertSpaces THEN Repeat(<<chSP>>, opts.TabSize) ELSE <<chTab>>

\* The loop's variables.
FormatState(res, ind, ls, prev) ==
    [result |-> res, indent |-> ind, lineStart |-> ls, prevTok |-> prev]

initialFormatState == FormatState(<<>>, 0, TRUE, zeroToken)

\* The mutant of decrementIndent: indent-- without the floor.
decrementIndentUnfloored(ind) == ind - 1

\* indent--; if indent < 0 { indent = 0 }
decrementIndent(ind) == IF ind - 1 < 0 THEN 0 ELSE ind - 1

strSP == <<chSP>>
tightOperators == {Bytes("."), Bytes("..."), Bytes("::"), Bytes("->")}
closingBrackets == {strRParen, strRBracket, strRBrace}

\* case tokWhitespace
formatWhitespace(st, tok, hasNext, next) ==
    IF ~st.lineStart /\ hasNext /\ next.typ # "tokNewline" /\ next.typ # "tokPipe"
       /\ st.prevTok.typ # "tokPipe"
    THEN FormatState(st.result \o strSP, st.indent, st.lineStart, tok)
    ELSE FormatState(st.result, st.indent, st.lineStart, tok)

\* case tokComment
formatComment(st, tok, indentStr) ==
    FormatState(st.result \o (IF st.lineStart THEN Repeat(indentStr, st.indent) ELSE <<>>)
                          \o tok.value,
                st.indent, FALSE, tok)

\* The mutant of formatPipe: the pipe is written where the line stands.
formatPipeInline(st, tok, indentStr) ==
    FormatState(st.result \o (IF st.lineStart THEN Repeat(indentStr, st.indent) ELSE strSP)
                          \o tok.value \o strSP,
                st.indent, FALSE, tok)

\* case tokPipe
formatPipe(st, tok, indentStr) ==
    FormatState(st.result \o (IF ~st.lineStart THEN <<chNL>> ELSE <<>>)
                          \o Repeat(indentStr, st.indent) \o tok.value \o strSP,
                st.indent, FALSE, tok)

\* case tokPunctuation
formatPunctuation(st, tok, hasNext, next, indentStr) ==
    LET v == tok.value
        lead == IF st.lineStart /\ v \notin closingBrackets
                THEN Repeat(indentStr, st.indent)
                ELSE <<>>
        res == st.result \o lead
    IN  IF v = strLParen \/ v = strLBrace
            THEN FormatState(res \o v, st.indent + 1, FALSE, tok)
        ELSE IF v = strRParen
            THEN FormatState(res \o v, decrementIndent(st.indent), FALSE, tok)
        ELSE IF v = strRBrace
            THEN LET ind == decrementIndent(st.indent)
                 IN  FormatState(res \o (IF st.lineStart THEN Repeat(indentStr, ind) ELSE <<>>)
                                     \o v,
                                 ind, FALSE, tok)
        ELSE IF v = strComma
            THEN FormatState(res \o v \o (IF hasNext /\ next.typ # "tokNewline"
                                          THEN strSP ELSE <<>>),
                             st.indent, FALSE, tok)
        ELSE IF v = strColon
            THEN FormatState(res \o (IF st.prevTok.typ \in {"tokIdentifier", "tokString"}
                                     THEN Bytes(": ") ELSE v),
                             st.indent, FALSE, tok)
        ELSE FormatState(res \o v, st.indent, FALSE, tok)

\* case tokOperator
formatOperator(st, tok, hasNext, next, indentStr) ==
    LET v == tok.value
        res == st.result \o (IF st.lineStart THEN Repeat(indentStr, st.indent) ELSE <<>>)
        before == IF ~st.lineStart /\ st.prevTok.typ # "tokWhitespace"
                     /\ st.prevTok.typ # "tokNewline"
                     /\ st.prevTok.value # strLParen /\ st.prevTok.value # strLBracket
                  THEN strSP ELSE <<>>
        after == IF hasNext /\ next.typ # "tokNewline" /\ next.typ # "tokWhitespace"
                    /\ next.value # strRParen /\ next.value # strRBracket
                    /\ next.value # strComma
                 THEN strSP ELSE <<>>
    IN  IF v \in tightOperators
        THEN FormatState(res \o v, st.indent, FALSE, tok)
        ELSE FormatState(res \o before \o v \o after, st.indent, FALSE, tok)

\* case tokKeyword and case tokIdentifier, tokNumber, tokString, tokRegexp
formatWord(st, tok, indentStr) ==
    FormatState(st.result \o (IF st.lineStart THEN Repeat(indentStr, st.indent)
                              ELSE IF needsSpaceBefore(st.prevTok) THEN strSP
                              ELSE <<>>)
                          \o tok.value,
                st.indent, FALSE, tok)

\* The body of "for i, tok := range tokens" for the n-th token (n = i + 1).
formatStep(toks, n, st, indentStr) ==
    LET tok == toks[n]
        hasNext == n < Len(toks)
        next == IF hasNext THEN toks[n + 1] ELSE zeroToken
    IN  CASE tok.typ = "tokNewline" ->
                FormatState(st.result \o <<chNL>>, st.indent, TRUE, tok)
          [] tok.typ = "tokWhitespace" -> formatWhitespace(st, tok, hasNext, next)
          [] tok.typ = "tokComment" -> formatComment(st, tok, indentStr)
          [] tok.typ = "tokPipe" -> formatPipe(st, tok, indentStr)
          [] tok.typ = "tokPunctuation" -> formatPunctuation(st, tok, hasNext, next, indentStr)
          [] tok.typ = "tokOperator" -> formatOperator(st, tok, hasNext, next, indentStr)
          [] OTHER -> formatWord(st, tok, indentStr)

-----------------------------------------------------------------------------
(* formatTokens: the pass over result.String() (lines 388-407)              *)

\* strings.Split(s, "\n")
RECURSIVE splitLinesFrom(_, _, _)
splitLinesFrom(s, from, n) ==
    IF n >= Len(s) THEN <<Slice(s, from, Len(s))>>
    ELSE IF At(s, n) = chNL THEN <<Slice(s, from, n)>> \o splitLinesFrom(s, n + 1, n + 1)
    ELSE splitLinesFrom(s, from, n + 1)

splitLines(s) == splitLinesFrom(s, 0, 0)

\* strings.Join(lines, "\n")
RECURSIVE joinLines(_)
joinLines(lines) ==
    IF Len(lines) = 1 THEN lines[1]
    ELSE lines[1] \o <<chNL>> \o joinLines(Tail(lines))

\* The width of the last rune of s when unicode.IsSpace holds of it, else 0:
\* utf8.DecodeLastRuneInString, then the White_Space table.
asciiSpaces == {9, 10, 11, 12, 13, 32}
trailingSpaceWidth(s) ==
    LET len == Len(s)
        b1 == s[len]
        b2 == s[len - 1]
        b3 == s[len - 2]
    IN  IF len = 0 THEN 0
        ELSE IF b1 < 128 THEN (IF b1 \in asciiSpaces THEN 1 ELSE 0)
        ELSE IF len >= 2 /\ b2 = 194 /\ b1 \in {133, 160} THEN 2
        ELSE IF len >= 3 /\ (\/ (b3 = 225 /\ b2 = 154 /\ b1 = 128)
                             \/ (b3 = 226 /\ b2 = 128 /\ b1 \in (128..138) \cup {168, 169, 175})
                             \/ (b3 = 226 /\ b2 = 129 /\ b1 = 159)
                             \/ (b3 = 227 /\ b2 = 128 /\ b1 = 128)) THEN 3
        ELSE 0

\* strings.TrimRightFunc(line, unicode.IsSpace)
RECURSIVE trimRightSpace(_)
trimRightSpace(s) ==
    LET w == trailingSpaceWidth(s)
    IN  IF w = 0 THEN s ELSE trimRightSpace(SubSeq(s, 1, Len(s) - w))

\* strings.TrimRight(s, "\n")
RECURSIVE trimRightNewlines(_)
trimRightNewlines(s) ==
    IF Len(s) > 0 /\ s[Len(s)] = chNL THEN trimRightNewlines(SubSeq(s, 1, Len(s) - 1)) ELSE s

trimTrailingWhitespace(formatted) ==
    LET lines == splitLines(formatted)
    IN  joinLines([n \in 1..Len(lines) |-> trimRightSpace(lines[n])])

postProcess(formatted, opts) ==
    LET a == IF opts.TrimTrailingWhitespace THEN trimTrailingWhitespace(formatted)
             ELSE formatted
        b == IF opts.TrimFinalNewlines THEN trimRightNewlines(a) ELSE a
    IN  IF opts.InsertFinalNewline /\ ~HasSuffix(b, <<chNL>>) THEN b \o <<chNL>> ELSE b

RECURSIVE formatLoop(_, _, _, _)
formatLoop(toks, n, st, indentStr) ==
    IF n > Len(toks) THEN st
    ELSE formatLoop(toks, n + 1, formatStep(toks, n, st, indentStr), indentStr)

\* formatTokens: a panic of strings.Repeat at line 250 ends it before the loop.
formatTokens(toks, opts) ==
    IF indentString(opts) = Panic THEN Panic
    ELSE postProcess(formatLoop(toks, 1, initialFormatState, indentString(opts)).result,
                     opts)

formatDocument(s, opts) == formatTokens(tokenize(s), opts)

-----------------------------------------------------------------------------
(* formatDocument as a state machine: tokenize, then formatTokens          *)

\* Bounds of the checked inputs.
MaxLen == 3
MaxTabSize == 1

\* The bytes the checked documents are made of.
Alphabet == {chNL, chSP, Ord["a"], Ord[","], chPipe, chSlash, chLParen, chRParen,
             Ord["}"], chDash, chDQuote}

\* The documents of n bytes.
Texts(n) == [1..n -> Alphabet]

\* The options a client sends; tabSize is decoded into an int and may be
\* negative. Without insertSpaces the code does not read tabSize, which is
\* then kept at 0.
Options ==
    {o \in [TabSize : -1..MaxTabSize, InsertSpaces : BOOLEAN,
            TrimTrailingWhitespace : BOOLEAN, InsertFinalNewline : BOOLEAN,
            TrimFinalNewlines : BOOLEAN] : o.InsertSpaces \/ o.TabSize = 0}

defaultOptions == [TabSize |-> 0, InsertSpaces |-> FALSE, TrimTrailingWhitespace |-> FALSE,
                   InsertFinalNewline |-> FALSE, TrimFinalNewlines |-> FALSE]

lexIdle == i = 0 /\ tokens = <<>> /\ resets = <<>>
fmtIdle == k = 0 /\ result = <<>> /\ indent = 0 /\ lineStart = TRUE /\ prevTok = zeroToken
srvIdle == documents = <<>> /\ received = <<>> /\ sent = <<>>
migIdle == firstLine = 0 /\ request = <<>> /\ lineNum = 0 /\ diagnostics = <<>>
           /\ actions = <<>> /\ doc = <<>> /\ applied = 0 /\ outOfRange = FALSE

\* formatDocument(text, options) is called.
Init ==
    /\ \E n \in 0..MaxLen : text \in Texts(n)
    /\ options \in Options
    /\ pc = "tokenize"
    /\ lexIdle /\ fmtIdle /\ migIdle /\ srvIdle

\* One iteration of tokenize's loop.
TokenizeStep ==
    /\ pc = "tokenize"
    /\ i < Len(text)
    /\ LET r == tokenizeStep(text, i, tokens)
       IN  /\ i' = r.next
           /\ tokens' = Append(tokens, r.tok)
           /\ resets' = IF r.reset THEN Append(resets, i) ELSE resets
    /\ UNCHANGED <<text, options, pc, fmtVars, migVars, srvVars>>

\* tokenize returns and formatTokens starts on its result: it computes
\* indentStr, where strings.Repeat panics on a negative TabSize.
TokenizeReturn ==
    /\ pc = "tokenize"
    /\ i >= Len(text)
    /\ pc' = IF indentString(options) = Panic THEN "panic" ELSE "format"
    /\ UNCHANGED <<text, options, lexVars, fmtVars, migVars, srvVars>>

\* One iteration of formatTokens' loop.
FormatStep ==
    /\ pc = "format"
    /\ k < Len(tokens)
    /\ LET st == formatStep(tokens, k + 1, FormatState(result, indent, lineStart, prevTok),
                            indentString(options))
       IN  /\ result' = st.result
           /\ indent' = st.indent
           /\ lineStart' = st.lineStart
           /\ prevTok' = st.prevTok
    /\ k' = k + 1
    /\ UNCHANGED <<text, options, pc, lexVars, migVars, srvVars>>

\* The loop is over: trailing whitespace, final newlines, return.
FormatReturn ==
    /\ pc = "format"
    /\ k = Len(tokens)
    /\ result' = postProcess(result, options)
    /\ pc' = "done"
    /\ UNCHANGED <<text, options, lexVars, k, indent, lineStart, prevTok, migVars, srvVars>>

Next == TokenizeStep \/ TokenizeReturn \/ FormatStep \/ FormatReturn

Spec == Init /\ [][Next]_vars

-----------------------------------------------------------------------------
(* Migration rules (lsp/migration.go): the pattern matcher                  *)

strSlashes == Bytes("//")
strDashes == Bytes("--")
strSchemeSep == Bytes("://")

DiagnosticSeverityError == 1
DiagnosticSeverityWarning == 2

\* \w of the regexp package: [0-9A-Za-z_]
isWordByte(b) == isLetter(b) \/ isDigit(b) \/ b = chUnderscore

\* \b at position p of line: exactly one side is a word byte.
wordBoundary(line, p) ==
    (p > 0 /\ isWordByte(At(line, p - 1))) # (p < Len(line) /\ isWordByte(At(line, p)))

\* \s* from position p: [\t\n\f\r ], greedy.
RECURSIVE skipSpaces(_, _)
skipSpaces(line, p) ==
    IF p < Len(line) /\ At(line, p) \in {9, 10, 12, 13, 32} THEN skipSpaces(line, p + 1) ELSE p

\* [^b]*b from position p: the position of the first byte b at or after p, or -1.
RECURSIVE untilByte(_, _, _)
untilByte(line, p, b) ==
    IF p >= Len(line) THEN -1
    ELSE IF At(line, p) = b THEN p
    ELSE untilByte(line, p + 1, b)

isContinuation(line, p, lo, hi) == p < Len(line) /\ At(line, p) >= lo /\ At(line, p) <= hi

\* The width in bytes of the rune the regexp engine reads at p
\* (utf8.DecodeRuneInString: an invalid or cut-off encoding is one byte wide).
runeWidth(line, p) ==
    LET b == At(line, p)
        two == b >= 194 /\ b <= 223 /\ isContinuation(line, p + 1, 128, 191)
        lo3 == IF b = 224 THEN 160 ELSE 128
        hi3 == IF b = 237 THEN 159 ELSE 191
        three == b >= 224 /\ b <= 239 /\ isContinuation(line, p + 1, lo3, hi3)
                 /\ isContinuation(line, p + 2, 128, 191)
        lo4 == IF b = 240 THEN 144 ELSE 128
        hi4 == IF b = 244 THEN 143 ELSE 191
        four == b >= 240 /\ b <= 244 /\ isContinuation(line, p + 1, lo4, hi4)
                /\ isContinuation(line, p + 2, 128, 191)
                /\ isContinuation(line, p + 3, 128, 191)
    IN  IF b < 128 THEN 1
        ELSE IF two THEN 2
        ELSE IF three THEN 3
        ELSE IF four THEN 4
        ELSE 1

\* A match attempt at one position: end is the end offset of the match, -1
\* when the pattern does not match there; gs, ge delimit capture group 1.
NoMatch == [end |-> -1, gs |-> -1, ge |-> -1]
Match(e, gs, ge) == [end |-> e, gs |-> gs, ge |-> ge]

\* \bWORD\b
matchWord(line, p, word) ==
    IF HasPrefixAt(line, p, word) /\ wordBoundary(line, p)
       /\ wordBoundary(line, p + Len(word))
    THEN Match(p + Len(word), -1, -1)
    ELSE NoMatch

\* A literal, as in =>
matchLiteral(line, p, lit) ==
    IF HasPrefixAt(line, p, lit) THEN Match(p + Len(lit), -1, -1) ELSE NoMatch

\* (^|[^:])//  : the alternative ^ is tried first
matchCommentSlash(line, p) ==
    IF p = 0 /\ HasPrefixAt(line, 0, strSlashes) THEN Match(2, 0, 0)
    ELSE IF p < Len(line) /\ ~(At(line, p) = chColon)
            /\ HasPrefixAt(line, p + runeWidth(line, p), strSlashes)
         THEN Match(p + runeWidth(line, p) + 2, p, p + runeWidth(line, p))
    ELSE NoMatch

\* \bNAME\s*\(  : the position after the opening parenthesis, or -1
callOpen(line, p, name) ==
    IF HasPrefixAt(line, p, name) /\ wordBoundary(line, p)
    THEN LET q == skipSpaces(line, p + Len(name))
         IN  IF q < Len(line) /\ At(line, q) = chLParen THEN q + 1 ELSE -1
    ELSE -1

\* \bNAME\s*\(
matchCall(line, p, name) ==
    LET q == callOpen(line, p, name)
    IN  IF q >= 0 THEN Match(q, -1, -1) ELSE NoMatch

\* \s*\)  from position p: the position after the closing parenthesis, or -1
callClose(line, p) ==
    LET q == skipSpaces(line, p)
    IN  IF q < Len(line) /\ At(line, q) = chRParen THEN q + 1 ELSE -1

\* \bNAME\s*\(\s*(ARG)\s*\)  where ARG is one of the delimited forms B[^E]*E for
\* the given pairs of opening and closing bytes, at least minInner bytes inside.
matchCallWithArg(line, p, name, delims, minInner) ==
    LET q == callOpen(line, p, name)
        r == skipSpaces(line, q)
        close == IF r < Len(line) /\ At(line, r) \in DOMAIN delims
                 THEN untilByte(line, r + 1, delims[At(line, r)])
                 ELSE -1
        e == callClose(line, close + 1)
    IN  IF q >= 0 /\ close >= r + 1 + minInner /\ e >= 0
        THEN Match(e, r, close + 1)
        ELSE NoMatch

\* \bNAME\s*\(\s*\)
matchEmptyCall(line, p, name) ==
    LET q == callOpen(line, p, name)
        e == callClose(line, q)
    IN  IF q >= 0 /\ e >= 0 THEN Match(e, -1, -1) ELSE NoMatch

quoteDelims == (chSQuote :> chSQuote) @@ (chDQuote :> chDQuote)
grepDelims == (chSlash :> chSlash) @@ quoteDelims
typeDelims == (chLT :> chGT)

-----------------------------------------------------------------------------
(* The migrations table                                                     *)

\* The mutant of Migration: every rule has an automatic fix.
MigrationAlwaysFix(code, shape, name, newText, severity, hasAutoFix) ==
    [Code |-> code, Shape |-> shape, Name |-> Bytes(name), NewText |-> Bytes(newText),
     Severity |-> severity, HasAutoFix |-> TRUE]

\* One Migration: Code, the shape of Pattern with the name or literal in it,
\* Severity, HasAutoFix, and NewText (used when FixFunc is nil: the shapes
\* word and literal).
Migration(code, shape, name, newText, severity, hasAutoFix) ==
    [Code |-> code, Shape |-> shape, Name |-> Bytes(name), NewText |-> Bytes(newText),
     Severity |-> severity, HasAutoFix |-> hasAutoFix]

migrations == <<
    Migration("deprecated-yield", "word", "yield", "values", DiagnosticSeverityWarning, TRUE),
    Migration("deprecated-func", "word", "func", "fn", DiagnosticSeverityWarning, TRUE),
    Migration("deprecated-arrow", "literal", "=>", "into", DiagnosticSeverityWarning, TRUE),
    Migration("deprecated-comment-slash", "commentSlash", "//", "--",
              DiagnosticSeverityWarning, TRUE),
    Migration("deprecated-parse-zson", "call", "parse_zson", "parse_sup",
              DiagnosticSeverityWarning, TRUE),
    Migration("implicit-this-grep", "grep", "grep", "grep(pattern, this)",
              DiagnosticSeverityWarning, TRUE),
    Migration("implicit-this-is", "is", "is", "is(this, <type>)",
              DiagnosticSeverityWarning, TRUE),
    Migration("implicit-this-nest-dotted", "emptyCall", "nest_dotted", "nest_dotted(this)",
              DiagnosticSeverityWarning, TRUE),
    Migration("deprecated-cast-time", "cast", "time", "'...'::time",
              DiagnosticSeverityWarning, TRUE),
    Migration("deprecated-cast-duration", "cast", "duration", "'...'::duration",
              DiagnosticSeverityWarning, TRUE),
    Migration("deprecated-cast-ip", "cast", "ip", "'...'::ip",
              DiagnosticSeverityWarning, TRUE),
    Migration("deprecated-cast-net", "cast", "net", "'...'::net",
              DiagnosticSeverityWarning, TRUE),
    Migration("removed-crop", "call", "crop", "", DiagnosticSeverityError, FALSE),
    Migration("removed-fill", "call", "fill", "", DiagnosticSeverityError, FALSE),
    Migration("removed-fit", "call", "fit", "", DiagnosticSeverityError, FALSE),
    Migration("removed-order", "call", "order", "", DiagnosticSeverityError, FALSE),
    Migration("removed-shape", "call", "shape", "", DiagnosticSeverityError, FALSE) >>

\* m.Pattern tried at position p of line.
matchAt(m, line, p) ==
    CASE m.Shape = "word" -> matchWord(line, p, m.Name)
      [] m.Shape = "literal" -> matchLiteral(line, p, m.Name)
      [] m.Shape = "commentSlash" -> matchCommentSlash(line, p)
      [] m.Shape = "call" -> matchCall(line, p, m.Name)
      [] m.Shape = "grep" -> matchCallWithArg(line, p, m.Name, grepDelims, 0)
      [] m.Shape = "is" -> matchCallWithArg(line, p, m.Name, typeDelims, 1)
      [] m.Shape = "emptyCall" -> matchEmptyCall(line, p, m.Name)
      [] m.Shape = "cast" -> matchCallWithArg(line, p, m.Name, quoteDelims, 0)

\* m.Pattern.FindAllStringIndex(line, -1): the leftmost match at or after p,
\* then the matches after its end. Each element is <<start, end, gs, ge>>.
RECURSIVE findAllFrom(_, _, _)
findAllFrom(m, line, p) ==
    IF p > Len(line) THEN <<>>
    ELSE LET r == matchAt(m, line, p)
         IN  IF r.end >= 0 THEN <<(<<p, r.end, r.gs, r.ge>>)>> \o findAllFrom(m, line, r.end)
             ELSE IF p = Len(line) THEN <<>>
             ELSE findAllFrom(m, line, p + runeWidth(line, p))

findAll(m, line) == findAllFrom(m, line, 0)

\* The mutant of fixText: the matched text comes back as it is.
fixTextUnchanged(m, line, match) == Slice(line, match[1], match[2])

\* m.FixFunc(matchedText), or m.NewText when the rule has no FixFunc; the match
\* is <<start, end, gs, ge>> on line. The FixFuncs of the shapes grep, is and
\* cast match their pattern again, on the matched text alone, and read the
\* group of the first match (FindStringSubmatch); without a match they return
\* the matched text.
fixText(m, line, match) ==
    LET matched == Slice(line, match[1], match[2])
        rewrite(group) ==
            CASE m.Shape = "grep" ->
                   IF Head(group) = chSlash /\ group[Len(group)] = chSlash
                   THEN Bytes("grep('") \o SubSeq(group, 2, Len(group) - 1)
                        \o Bytes("', this)")
                   ELSE Bytes("grep(") \o group \o Bytes(", this)")
              [] m.Shape = "is" -> Bytes("is(this, ") \o group \o Bytes(")")
              [] m.Shape = "cast" -> group \o Bytes("::") \o m.Name
        fromSubmatch(submatch) ==
            IF submatch = <<>> THEN matched
            ELSE rewrite(Slice(matched, submatch[1][3], submatch[1][4]))
    IN  CASE m.Shape \in {"word", "literal"} -> m.NewText
          [] m.Shape = "commentSlash" ->
                IF Len(matched) > 2
                THEN SubSeq(matched, 1, Len(matched) - 2) \o strDashes
                ELSE strDashes
          [] m.Shape = "call" -> Bytes("parse_sup(")
          [] m.Shape \in {"grep", "is", "cast"} -> fromSubmatch(findAll(m, matched))
          [] m.Shape = "emptyCall" -> Bytes("nest_dotted(this)")

-----------------------------------------------------------------------------
(* getMigrationDiagnostics                                                  *)

Position(line, character) == [Line |-> line, Character |-> character]

\* The mutant of Range: the end column taken as inclusive.
RangeInclusiveEnd(line, startCol, endCol) ==
    [Start |-> Position(line, startCol), End |-> Position(line, endCol + 1)]

Range(line, startCol, endCol) ==
    [Start |-> Position(line, startCol), End |-> Position(line, endCol)]
TextEdit(range, newText) == [Range |-> range, NewText |-> newText]
Diagnostic(range, severity, code) == [Range |-> range, Severity |-> severity, Code |-> code]

\* A MigrationDiagnostic; Fix is <<>> for the nil pointer, else <<edit>>.
MigrationDiagnostic(diag, fix) == [Diagnostic |-> diag, Fix |-> fix]
hasFix(md) == md.Fix # <<>>

\* strings.Index(s, sub): the first offset of sub in s at or after p, or -1.
RECURSIVE indexFrom(_, _, _)
indexFrom(s, sub, p) ==
    IF p + Len(sub) > Len(s) THEN -1
    ELSE IF Slice(s, p, p + Len(sub)) = sub THEN p
    ELSE indexFrom(s, sub, p + 1)

stringsIndex(s, sub) == indexFrom(s, sub, 0)

\* The range the diagnostic of a match gets (lines 277-296): the match, and
\* for deprecated-comment-slash only the two slashes.
diagnosticStart(m, line, match) ==
    LET matchStr == Slice(line, match[1], match[2])
    IN  IF m.Code = "deprecated-comment-slash" /\ Len(matchStr) > 2
           /\ HasSuffix(matchStr, strSlashes)
        THEN match[2] - 2
        ELSE match[1]

\* The mutant of isSuppressed: only the URL guard, not the comment check.
isSuppressedUrlOnly(m, line, commentIdx, match) ==
    /\ m.Code = "deprecated-comment-slash"
    /\ stringsIndex(Slice(line, match[1], match[2]), strSchemeSep) >= 0

\* Whether the match is skipped (the two "continue" statements).
isSuppressed(m, line, commentIdx, match) ==
    \/ (commentIdx >= 0 /\ match[1] > commentIdx)
    \/ (m.Code = "deprecated-comment-slash"
        /\ stringsIndex(Slice(line, match[1], match[2]), strSchemeSep) >= 0)

\* The body of "for _, match := range matches": what it appends to diagnostics.
matchDiagnostics(m, ln, line, commentIdx, match) ==
    IF isSuppressed(m, line, commentIdx, match) THEN <<>>
    ELSE LET diag == Diagnostic(Range(ln, diagnosticStart(m, line, match), match[2]),
                                m.Severity, m.Code)
             fix == IF m.HasAutoFix
                    THEN <<TextEdit(Range(ln, match[1], match[2]),
                                    fixText(m, line, match))>>
                    ELSE <<>>
         IN  <<MigrationDiagnostic(diag, fix)>>

RECURSIVE matchesDiagnostics(_, _, _, _, _)
matchesDiagnostics(m, ln, line, commentIdx, matches) ==
    IF matches = <<>> THEN <<>>
    ELSE matchDiagnostics(m, ln, line, commentIdx, Head(matches))
         \o matchesDiagnostics(m, ln, line, commentIdx, Tail(matches))

\* The body of "for lineNum, line := range lines" for the rules from index r on.
RECURSIVE lineDiagnosticsFrom(_, _, _, _)
lineDiagnosticsFrom(r, ln, line, commentIdx) ==
    IF r > Len(migrations) THEN <<>>
    ELSE matchesDiagnostics(migrations[r], ln, line, commentIdx,
                            findAll(migrations[r], line))
         \o lineDiagnosticsFrom(r + 1, ln, line, commentIdx)

lineDiagnostics(ln, line) ==
    lineDiagnosticsFrom(1, ln, line, stringsIndex(line, strDashes))

RECURSIVE diagnosticsFromLine(_, _)
diagnosticsFromLine(lines, n) ==
    IF n >= Len(lines) THEN <<>>
    ELSE lineDiagnostics(n, lines[n + 1]) \o diagnosticsFromLine(lines, n + 1)

getMigrationDiagnostics(s) == diagnosticsFromLine(splitLines(s), 0)

-----------------------------------------------------------------------------
(* getCodeActionsForDiagnostics                                             *)

\* diagnosticKey(d): the code and the four coordinates, joined by colons.
diagnosticKey(d) ==
    Bytes(d.Code) \o <<chColon>> \o runeString(d.Range.Start.Line)
                 \o <<chColon>> \o runeString(d.Range.Start.Character)
                 \o <<chColon>> \o runeString(d.Range.End.Line)
                 \o <<chColon>> \o runeString(d.Range.End.Character)

\* fixableDiags: the map from key to MigrationDiagnostic, a later diagnostic
\* with the same key replacing an earlier one.
fixableDiags(migrationDiags) ==
    LET fixable == {n \in 1..Len(migrationDiags) : hasFix(migrationDiags[n])}
        keys == {diagnosticKey(migrationDiags[n].Diagnostic) : n \in fixable}
        last(key) == CHOOSE n \in fixable :
                        /\ diagnosticKey(migrationDiags[n].Diagnostic) = key
                        /\ \A o \in fixable :
                              diagnosticKey(migrationDiags[o].Diagnostic) = key => o <= n
    IN  [key \in keys |-> migrationDiags[last(key)]]

comparePositions(a, b) ==
    IF a.Line < b.Line THEN -1
    ELSE IF a.Line > b.Line THEN 1
    ELSE IF a.Character < b.Character THEN -1
    ELSE IF a.Character > b.Character THEN 1
    ELSE 0

swap(edits, a, b) == [edits EXCEPT ![a] = edits[b], ![b] = edits[a]]

\* sortEditsReverse: the two nested loops, a and b the one-based i and j.
RECURSIVE sortInner(_, _, _)
sortInner(edits, a, b) ==
    IF b > Len(edits) THEN edits
    ELSE IF comparePositions(edits[a].Range.Start, edits[b].Range.Start) < 0
         THEN sortInner(swap(edits, a, b), a, b + 1)
         ELSE sortInner(edits, a, b + 1)

RECURSIVE sortOuter(_, _)
sortOuter(edits, a) ==
    IF a >= Len(edits) THEN edits ELSE sortOuter(sortInner(edits, a, a + 1), a + 1)

sortEditsReverse(edits) == sortOuter(edits, 1)

CodeActionKindQuickFix == "quickfix"
CodeActionKindSourceFixAll == "source.fixAll"

CodeAction(kind, diags, edits) == [Kind |-> kind, Diagnostics |-> diags, Edits |-> edits]

\* The quick-fix actions, one per requested diagnostic whose key is in the map.
RECURSIVE quickFixes(_, _)
quickFixes(fixable, requestedDiags) ==
    IF requestedDiags = <<>> THEN <<>>
    ELSE LET key == diagnosticKey(Head(requestedDiags))
         IN  (IF key \in DOMAIN fixable
              THEN <<CodeAction(CodeActionKindQuickFix, <<fixable[key].Diagnostic>>,
                                <<fixable[key].Fix[1]>>)>>
              ELSE <<>>)
             \o quickFixes(fixable, Tail(requestedDiags))

\* The fix-all action for one iteration order of the map (a sequence of its keys).
fixAllAction(fixable, order) ==
    IF Cardinality(DOMAIN fixable) > 1
    THEN <<CodeAction(CodeActionKindSourceFixAll,
                      [n \in 1..Len(order) |-> fixable[order[n]].Diagnostic],
                      sortEditsReverse([n \in 1..Len(order) |-> fixable[order[n]].Fix[1]]))>>
    ELSE <<>>

\* The orders in which "for _, md := range fixableDiags" may visit the map.
iterationOrders(fixable) ==
    LET keys == DOMAIN fixable
        n == Cardinality(keys)
    IN  {order \in [1..n -> keys] : \A a, b \in 1..n : a # b => order[a] # order[b]}

\* getCodeActionsForDiagnostics for one iteration order of the map.
getCodeActionsForDiagnostics(s, requestedDiags, order) ==
    LET fixable == fixableDiags(getMigrationDiagnostics(s))
    IN  quickFixes(fixable, requestedDiags) \o fixAllAction(fixable, order)

-----------------------------------------------------------------------------
(* The client applying the edits of the fix-all action, one after another   *)

min(a, b) == IF a < b THEN a ELSE b

\* Whether the range of edit e ends beyond the end of its line of the document lines.
endBeyondLine(lines, e) ==
    e.Range.End.Character > Len(lines[e.Range.End.Line + 1])

\* The document lines after edit e; a column past the end of the line counts
\* as the end of the line, as the protocol has it.
applyEdit(lines, e) ==
    LET n == e.Range.Start.Line + 1
        line == lines[n]
        from == min(e.Range.Start.Character, Len(line))
        to == min(e.Range.End.Character, Len(line))
    IN  [lines EXCEPT ![n] = Slice(line, 0, from) \o e.NewText \o Slice(line, to, Len(line))]

\* Edit e with its lines counted from line n of the document.
lineAbove(e, n) ==
    [e EXCEPT !.Range.Start.Line = @ - n, !.Range.End.Line = @ - n]

\* The edits of the fix-all action among the code actions, <<>> when there is none.
fixAllEdits(acts) ==
    IF \E n \in 1..Len(acts) : acts[n].Kind = CodeActionKindSourceFixAll
    THEN acts[CHOOSE n \in 1..Len(acts) : acts[n].Kind = CodeActionKindSourceFixAll].Edits
    ELSE <<>>

-----------------------------------------------------------------------------
(* getCodeActionsForDiagnostics as a state machine                          *)

MaxFrags == 3

\* The pieces the checked documents are made of.
Lexemes == {Bytes("yield"), Bytes("func"), Bytes("'func'"), Bytes("=>"), Bytes("//"),
            Bytes("--"), Bytes("\n"), Bytes("ip("), Bytes("crop("), Bytes(")"), Bytes(":"),
            Bytes(" "), <<195, 169>>}

\* The sequences of n pieces.
LexemeSeqs(n) == [1..n -> Lexemes]

\* The client asks for code actions on a document.
MigInit ==
    /\ \E n \in 0..MaxFrags : \E pieces \in LexemeSeqs(n) : text = Concat(pieces)
    /\ options = defaultOptions
    /\ pc = "scan"
    /\ lexIdle /\ fmtIdle /\ migIdle /\ srvIdle

\* One iteration of getMigrationDiagnostics' loop over the lines.
ScanLine ==
    /\ pc = "scan"
    /\ LET lines == splitLines(text)
       IN  /\ lineNum < firstLine + Len(lines)
           /\ diagnostics' =
                 diagnostics \o lineDiagnostics(lineNum, lines[lineNum - firstLine + 1])
    /\ lineNum' = lineNum + 1
    /\ UNCHANGED <<text, options, pc, lexVars, fmtVars, firstLine, request, actions, doc,
                   applied, outOfRange, srvVars>>

\* Diagnostic d one line further down.
lineBelow(d) ==
    [d EXCEPT !.Range.Start.Line = @ + 1, !.Range.End.Line = @ + 1]

\* What the client may ask code actions for: nothing, the diagnostics the scan
\* reported, or those diagnostics one line further down.
Requests(migrationDiags) ==
    {<<>>,
     [n \in 1..Len(migrationDiags) |-> migrationDiags[n].Diagnostic],
     [n \in 1..Len(migrationDiags) |-> lineBelow(migrationDiags[n].Diagnostic)]}

\* The scan is over: the map, the quick fixes for the requested diagnostics,
\* the fix-all action for one iteration order of the map.
BuildCodeActions ==
    /\ pc = "scan"
    /\ lineNum = firstLine + Len(splitLines(text))
    /\ LET fixable == fixableDiags(diagnostics)
       IN  /\ request' \in Requests(diagnostics)
           /\ \E order \in iterationOrders(fixable) :
                 actions' = quickFixes(fixable, request') \o fixAllAction(fixable, order)
    /\ doc' = splitLines(text)
    /\ pc' = "apply"
    /\ UNCHANGED <<text, options, lexVars, fmtVars, firstLine, lineNum, diagnostics, applied,
                   outOfRange, srvVars>>

\* The client applies the next edit of the fix-all action to its document.
ApplyEdit ==
    /\ pc = "apply"
    /\ applied < Len(fixAllEdits(actions))
    /\ LET e == lineAbove(fixAllEdits(actions)[applied + 1], firstLine)
       IN  /\ outOfRange' = (outOfRange \/ endBeyondLine(doc, e))
           /\ doc' = applyEdit(doc, e)
    /\ applied' = applied + 1
    /\ UNCHANGED <<text, options, pc, lexVars, fmtVars, firstLine, request, lineNum,
                   diagnostics, actions, srvVars>>

MigNext == ScanLine \/ BuildCodeActions \/ ApplyEdit

MigSpec == MigInit /\ [][MigNext]_vars

-----------------------------------------------------------------------------
(* The same calls on documents that begin with many empty lines             *)

FarLine == 55296
MaxFarFrags == 5

FarLexemes == {Bytes("yield"), Bytes("func"), Bytes("\n"), Bytes(" ")}

\* The client asks for code actions on a document of FarLine - 1 or FarLine
\* empty lines followed by text; the scan has passed the empty lines, on which
\* no rule matches.
FarInit ==
    /\ \E n \in 0..MaxFarFrags : \E pieces \in [1..n -> FarLexemes] : text = Concat(pieces)
    /\ options = defaultOptions
    /\ pc = "scan"
    /\ firstLine \in {FarLine - 1, FarLine}
    /\ lineNum = firstLine
    /\ request = <<>> /\ diagnostics = <<>> /\ actions = <<>> /\ doc = <<>>
    /\ applied = 0 /\ outOfRange = FALSE
    /\ lexIdle /\ fmtIdle /\ srvIdle

FarSpec == FarInit /\ [][MigNext]_vars

-----------------------------------------------------------------------------
(* The same calls on documents that hold one function call                  *)

CallNames == {Bytes("grep"), Bytes("is"), Bytes("nest_dotted"), Bytes("time"),
              Bytes("duration"), Bytes("ip"), Bytes("net")}
CallSpaces == {<<>>, <<chSP>>, <<9, chSP>>}
CallArgs == {<<>>, Bytes("/a/"), Bytes("//"), Bytes("'a'"), Bytes("\"a\""), Bytes("<T>"),
             Bytes("/a b/"), Bytes("a"), Bytes("'//'"), Bytes("\"//\"")}
CallPrefixes == {<<>>, Bytes("x")}
CallSuffixes == {<<>>, Bytes(" yield")}

\* The client asks for code actions on a one-line document: a call of one
\* argument, with white space at the three places where the patterns allow it.
CallInit ==
    /\ \E name \in CallNames, arg \in CallArgs, before \in CallPrefixes,
          after \in CallSuffixes, s1 \in CallSpaces, s2 \in CallSpaces, s3 \in CallSpaces :
          text = before \o name \o s1 \o <<chLParen>> \o s2 \o arg \o s3 \o <<chRParen>>
                 \o after
    /\ options = defaultOptions
    /\ pc = "scan"
    /\ lexIdle /\ fmtIdle /\ migIdle /\ srvIdle

CallSpec == CallInit /\ [][MigNext]_vars

-----------------------------------------------------------------------------
(* The server's map of open documents                                       *)

MaxNotifications == 3
MaxChanges == 2

URIs == {"file:///a.spq", "file:///b.spq"}
Contents == {Bytes("yield 1"), Bytes("values 1")}

\* The contentChanges lists of a didChange notification.
ContentChanges == UNION {[1..n -> [Text : Contents]] : n \in 0..MaxChanges}

\* NewServer() has returned.
DocInit ==
    /\ documents = <<>> /\ received = <<>> /\ sent = <<>>
    /\ text = <<>> /\ options = defaultOptions /\ pc = "serve"
    /\ lexIdle /\ fmtIdle /\ migIdle

\* The mutant of lastChange: the first element.
firstChange(changes) == changes[1].Text

\* params.ContentChanges[len(params.ContentChanges)-1].Text
lastChange(changes) == changes[Len(changes)].Text

\* s.documents[uri] = content
store(docs, uri, content) == [u \in DOMAIN docs \cup {uri} |-> IF u = uri THEN content ELSE docs[u]]

\* delete(s.documents, uri)
delete(docs, uri) == [u \in DOMAIN docs \ {uri} |-> docs[u]]

handleDidOpen ==
    /\ pc = "serve" /\ Len(received) < MaxNotifications
    /\ \E uri \in URIs, content \in Contents :
          /\ documents' = store(documents, uri, content)
          /\ received' = Append(received, [Method |-> "textDocument/didOpen", URI |-> uri,
                                           Text |-> content])
    /\ UNCHANGED <<text, options, pc, lexVars, fmtVars, migVars, sent>>

handleDidChange ==
    /\ pc = "serve" /\ Len(received) < MaxNotifications
    /\ \E uri \in URIs, changes \in ContentChanges :
          /\ documents' = IF Len(changes) > 0
                          THEN store(documents, uri, lastChange(changes))
                          ELSE documents
          /\ received' = Append(received, [Method |-> "textDocument/didChange", URI |-> uri,
                                           ContentChanges |-> changes])
    /\ UNCHANGED <<text, options, pc, lexVars, fmtVars, migVars, sent>>

handleDidClose ==
    /\ pc = "serve" /\ Len(received) < MaxNotifications
    /\ \E uri \in URIs :
          /\ documents' = delete(documents, uri)
          /\ received' = Append(received, [Method |-> "textDocument/didClose", URI |-> uri])
    /\ UNCHANGED <<text, options, pc, lexVars, fmtVars, migVars, sent>>

DocNext == handleDidOpen \/ handleDidChange \/ handleDidClose

DocSpec == DocInit /\ [][DocNext]_vars

-----------------------------------------------------------------------------
(* tokenize alone, on documents over the bytes its branches look at         *)

LexMaxLen == 4

LexAlphabet == {chNL, chSP, chDash, chSlash, chStar, chDQuote, chBackslash, chPipe, chGT,
                chDot, Ord["0"], Ord["x"], Ord["r"], chBacktick, 195}

LexTexts(n) == [1..n -> LexAlphabet]

\* tokenize(text) is called.
LexInit ==
    /\ \E n \in 0..LexMaxLen : text \in LexTexts(n)
    /\ options = defaultOptions
    /\ pc = "tokenize"
    /\ lexIdle /\ fmtIdle /\ migIdle /\ srvIdle

LexNext == TokenizeStep \/ TokenizeReturn

LexSpec == LexInit /\ [][LexNext]_vars

-----------------------------------------------------------------------------
(* formatDocument on documents made of brackets, operators and words        *)

MaxPieces == 4

\* The pieces the checked documents are made of.
Pieces == {Bytes("("), Bytes(")"), Bytes("["), Bytes("]"), Bytes("{"), Bytes("}"),
           Bytes("\n"), Bytes(" "), Bytes("a"), Bytes(","), Bytes("..."), Bytes("="),
           Bytes("/"), <<195>>}

\* formatDocument(text, options) is called with the default options (a tab
\* as the indent unit).
PieceInit ==
    /\ \E n \in 0..MaxPieces : \E pieces \in [1..n -> Pieces] : text = Concat(pieces)
    /\ options = defaultOptions
    /\ pc = "tokenize"
    /\ lexIdle /\ fmtIdle /\ migIdle /\ srvIdle

PieceSpec == PieceInit /\ [][Next]_vars

-----------------------------------------------------------------------------
(* C1: tokenize is lossless                                                 *)

\* C1: when tokenize has returned, the values of its tokens, concatenated in
\* order, are the input text byte for byte.
C1_Lossless == pc = "format" => tokenValues(tokens) = text

\* tokenize has returned on a text with a byte of 0x80 or more that no scan
\* rule recognizes.
C1_UnknownHighByte ==
    /\ pc = "format"
    /\ \E n \in 1..Len(tokens) : tokens[n].typ = "tokPunctuation" /\ tokens[n].value[1] >= 128

-----------------------------------------------------------------------------
(* C6: tokenize terminates, one token and some progress per iteration       *)

\* One iteration of the scan loop: one more token, the position strictly
\* greater and inside the text; an iteration whose regex scan failed emits the
\* slash as a one-byte operator and ends one byte further.
C6_IterationAdvances ==
    (pc = "tokenize" /\ i < Len(text)) =>
        /\ i' > i
        /\ i' <= Len(text)
        /\ Len(tokens') = Len(tokens) + 1
        /\ (Len(resets') > Len(resets) =>
                /\ resets' = Append(resets, i)
                /\ At(text, i) = chSlash
                /\ tokens'[Len(tokens')] = Token("tokOperator", <<chSlash>>)
                /\ i' = i + 1)

\* No position is reset to twice.
C6_ResetOncePerSlash ==
    \A a, b \in 1..Len(resets) : a < b => resets[a] < resets[b]

\* C6: tokenize terminates without an out-of-range index: the scan position
\* never passes the end of the text, every iteration of the loop appends
\* exactly one token and strictly advances the position (also when a failed
\* regex scan reset it to the slash), and no slash is re-scanned twice.
C6_Terminates ==
    /\ [](i <= Len(text))
    /\ [](C6_ResetOncePerSlash)
    /\ [][C6_IterationAdvances]_vars

\* tokenize has returned after two failed regex scans.
C6_TwoResets == pc = "format" /\ Len(resets) >= 2

-----------------------------------------------------------------------------
(* C2: formatDocument is idempotent                                         *)

\* C2: formatting the result of formatDocument again, with the same options,
\* gives that result.
C2_Idempotent == pc = "done" => formatDocument(result, options) = result

-----------------------------------------------------------------------------
(* C5: the literals of the text are in the formatted text                   *)

isLiteral(tok) == tok.typ \in {"tokString", "tokComment", "tokRegexp"}

\* Whether the values of the literal tokens from the n-th token on occur in s,
\* in order and one after another, at or after the offset from.
RECURSIVE literalsOccurFrom(_, _, _, _)
literalsOccurFrom(s, from, toks, n) ==
    IF n > Len(toks) THEN TRUE
    ELSE IF ~isLiteral(toks[n]) THEN literalsOccurFrom(s, from, toks, n + 1)
    ELSE LET at == indexFrom(s, toks[n].value, from)
         IN  at >= 0 /\ literalsOccurFrom(s, at + Len(toks[n].value), toks, n + 1)

\* C5: every string, comment and regex token value of tokenize(text) is in
\* formatDocument(text, options) byte for byte, in the order of the tokens.
C5_LiteralsKept == pc = "done" => literalsOccurFrom(result, 0, tokens, 1)

-----------------------------------------------------------------------------
(* C7: every pipe starts a line                                             *)

\* The offset of the first byte of line that is not a space or a tab.
RECURSIVE skipIndentation(_, _)
skipIndentation(line, n) ==
    IF n < Len(line) /\ At(line, n) \in {chSP, chTab} THEN skipIndentation(line, n + 1) ELSE n

\* The first bytes of line after its indentation are a pipe, | or |>.
isPipeLine(line) ==
    LET n == skipIndentation(line, 0)
    IN  n < Len(line) /\ At(line, n) = chPipe
        /\ (n + 1 < Len(line) => At(line, n + 1) # chPipe)

pipeLines(s) ==
    LET lines == splitLines(s)
    IN  Cardinality({n \in 1..Len(lines) : isPipeLine(lines[n])})

pipeTokens(toks) == Cardinality({n \in 1..Len(toks) : toks[n].typ = "tokPipe"})

\* res ends with the indent of the depth, the pipe and one space, and these
\* come first in res or directly after a newline.
endsWithPipeStage(res, tok, indentStr, depth) ==
    LET stage == Repeat(indentStr, depth) \o tok.value \o strSP
        before == Len(res) - Len(stage)
    IN  /\ HasSuffix(res, stage)
        /\ (before = 0 \/ res[before] = chNL)

\* C7: when formatTokens has handled a pipe token, the output ends with a
\* newline (or nothing), the current indent, the pipe and one space; the
\* formatted text has at least as many lines that start with a pipe, after
\* their indentation, as the text has pipe tokens.
C7_PipeIsolation ==
    /\ (pc = "format" /\ k >= 1 /\ tokens[k].typ = "tokPipe") =>
            endsWithPipeStage(result, tokens[k], indentString(options), indent)
    /\ pc = "done" => pipeLines(result) >= pipeTokens(tokens)

\* formatDocument has returned on a text with two pipes, one of them directly
\* after a token that is neither a newline nor white space.
C7_PipeMidLine ==
    /\ pc = "done"
    /\ pipeTokens(tokens) >= 2
    /\ \E n \in 2..Len(tokens) :
          /\ tokens[n].typ = "tokPipe"
          /\ tokens[n - 1].typ \notin {"tokNewline", "tokWhitespace", "tokPipe"}

-----------------------------------------------------------------------------
(* C8: the indent depth is never negative                                   *)

\* The next token of formatTokens' loop is a closing bracket.
nextIsClosingBracket ==
    /\ pc = "format" /\ k < Len(tokens)
    /\ tokens[k + 1].typ = "tokPunctuation" /\ tokens[k + 1].value \in closingBrackets

\* C8: the indent depth of formatTokens is at least 0 at every step, and a
\* closing bracket met at depth 0 leaves it at 0.
C8_IndentNonNegative ==
    /\ [](indent >= 0)
    /\ [][(nextIsClosingBracket /\ indent = 0) => indent' = 0]_vars

\* formatTokens has handled an opening bracket and two closing ones, the last
\* met at depth 0.
C8_UnmatchedClosing ==
    /\ pc = "format" /\ k = 3 /\ indent = 0
    /\ tokens[1].value = strLParen
    /\ tokens[2].value = strRParen
    /\ tokens[3].value \in {strRParen, strRBrace}

-----------------------------------------------------------------------------
(* C3: the edits of the fix-all action do not overlap                       *)

\* Two ranges of the original document share no column: they are on different
\* lines, or one ends where or before the other starts.
rangesDisjoint(a, b) ==
    \/ a.Start.Line # b.Start.Line
    \/ a.End.Character <= b.Start.Character
    \/ b.End.Character <= a.Start.Character

\* C3: any two distinct edits of the fix-all action have disjoint ranges.
C3_EditsDisjoint ==
    pc = "apply" =>
        \A a, b \in 1..Len(fixAllEdits(actions)) :
            a # b => rangesDisjoint(fixAllEdits(actions)[a].Range, fixAllEdits(actions)[b].Range)

-----------------------------------------------------------------------------
(* C4: applying the edits of the fix-all action in their order              *)

\* C4: no edit of the fix-all action, applied after the ones before it, has a
\* range that ends beyond the end of its line in the text as modified so far.
C4_EditsInBounds == ~outOfRange

-----------------------------------------------------------------------------
(* C9: the ranges of getMigrationDiagnostics stay inside their line         *)

\* The range r is on the line of index ln and inside that line.
rangeInLine(r, ln, line) ==
    /\ r.Start.Line = ln
    /\ r.End.Line = ln
    /\ 0 <= r.Start.Character
    /\ r.Start.Character <= r.End.Character
    /\ r.End.Character <= Len(line)

\* The diagnostics one iteration of the loop over the lines appends have
\* their range, and the range of their fix, inside the line of the iteration.
C9_ScannedRangesInLine ==
    (pc = "scan" /\ lineNum < Len(splitLines(text))) =>
        /\ Len(diagnostics') >= Len(diagnostics)
        /\ SubSeq(diagnostics', 1, Len(diagnostics)) = diagnostics
        /\ \A n \in (Len(diagnostics) + 1)..Len(diagnostics') :
              LET md == diagnostics'[n]
                  line == splitLines(text)[lineNum + 1]
              IN  /\ rangeInLine(md.Diagnostic.Range, lineNum, line)
                  /\ hasFix(md) => rangeInLine(md.Fix[1].Range, lineNum, line)

\* C9: every diagnostic range and every edit range getMigrationDiagnostics
\* returns starts and ends on the line the match was found on, with
\* 0 <= start <= end <= the byte length of that line.
C9_RangesInLine == [][C9_ScannedRangesInLine]_vars

\* The scan is over and has reported, on a line after the first, a match
\* that ends at the end of its line.
C9_MatchAtLineEnd ==
    /\ pc = "apply"
    /\ \E n \in 1..Len(diagnostics) :
          LET r == diagnostics[n].Diagnostic.Range
          IN  /\ r.Start.Line >= 1
              /\ r.End.Character > r.Start.Character
              /\ r.End.Character = Len(splitLines(text)[r.Start.Line + 1])

-----------------------------------------------------------------------------
(* C10: nothing is reported past the comment marker of a line               *)

\* The range r does not start past the first "--" of its line, if there is one.
notPastComment(r, lines) ==
    LET c == stringsIndex(lines[r.Start.Line + 1], strDashes)
    IN  c >= 0 => r.Start.Character <= c

\* C10: when the scan is over, on a line that contains "--" no diagnostic and
\* no edit starts at a column greater than the index of the first "--".
C10_CommentSuppression ==
    (pc = "apply" /\ applied = 0) =>
        LET lines == splitLines(text)
        IN  \A n \in 1..Len(diagnostics) :
                /\ notPastComment(diagnostics[n].Diagnostic.Range, lines)
                /\ hasFix(diagnostics[n]) => notPastComment(diagnostics[n].Fix[1].Range, lines)

\* Some rule matches the line past its first "--".
matchesPastComment(line) ==
    LET c == stringsIndex(line, strDashes)
    IN  c >= 0 /\ \E r \in 1..Len(migrations) :
                     \E n \in 1..Len(findAll(migrations[r], line)) :
                        findAll(migrations[r], line)[n][1] > c

\* The scan is over; one line has a reported match before its "--" and a
\* match of some rule after it.
C10_MatchInComment ==
    /\ pc = "apply"
    /\ \E n \in 1..Len(diagnostics) :
          LET line == splitLines(text)[diagnostics[n].Diagnostic.Range.Start.Line + 1]
          IN  /\ diagnostics[n].Diagnostic.Range.Start.Character < stringsIndex(line, strDashes)
              /\ matchesPastComment(line)

-----------------------------------------------------------------------------
(* C11: the slashes of a URL scheme separator are not reported              *)

\* The first offset at or after p of line that holds no slash.
RECURSIVE slashRunEnd(_, _)
slashRunEnd(line, p) ==
    IF p < Len(line) /\ At(line, p) = chSlash THEN slashRunEnd(line, p + 1) ELSE p

\* The runs <<a, b>> of two or more slashes of line that a colon precedes.
urlSlashRuns(line) ==
    {<<a, slashRunEnd(line, a)>> : a \in {c \in 1..(Len(line) - 1) :
        /\ At(line, c - 1) = chColon
        /\ At(line, c) = chSlash
        /\ slashRunEnd(line, c) - c >= 2}}

\* The range r shares no column with a run of urlSlashRuns.
clearOfUrlSlashes(r, line) ==
    \A run \in urlSlashRuns(line) :
        r.End.Character <= run[1] \/ r.Start.Character >= run[2]

\* C11: when the scan is over, no range of a deprecated-comment-slash
\* diagnostic intersects a run of two or more slashes that directly follows
\* a colon.
C11_UrlGuard ==
    (pc = "apply" /\ applied = 0) =>
        LET lines == splitLines(text)
        IN  \A n \in 1..Len(diagnostics) :
                LET d == diagnostics[n].Diagnostic
                IN  d.Code = "deprecated-comment-slash" =>
                        clearOfUrlSlashes(d.Range, lines[d.Range.Start.Line + 1])

-----------------------------------------------------------------------------
(* C12: which diagnostics carry an edit                                     *)

removedCodes == {"removed-crop", "removed-fill", "removed-fit", "removed-order",
                 "removed-shape"}

\* The rule of the table with the given code.
migrationOf(code) ==
    migrations[CHOOSE r \in 1..Len(migrations) : migrations[r].Code = code]

\* The range r is that of a whole match of the rule m on the line of index ln.
isFullMatch(r, m, ln, line) ==
    \E n \in 1..Len(findAll(m, line)) :
        r = [Start |-> Position(ln, findAll(m, line)[n][1]),
             End |-> Position(ln, findAll(m, line)[n][2])]

\* C12: when the scan is over, a diagnostic of a removed-* rule has severity
\* error and no edit; a diagnostic of any other rule has severity warning and
\* one edit, whose range is a whole match of the rule on the diagnostic's line.
C12_FixPerRule ==
    (pc = "apply" /\ applied = 0) =>
        LET lines == splitLines(text)
        IN  \A n \in 1..Len(diagnostics) :
                LET md == diagnostics[n]
                    d == md.Diagnostic
                IN  IF d.Code \in removedCodes
                    THEN d.Severity = DiagnosticSeverityError /\ md.Fix = <<>>
                    ELSE /\ d.Severity = DiagnosticSeverityWarning
                         /\ Len(md.Fix) = 1
                         /\ isFullMatch(md.Fix[1].Range, migrationOf(d.Code),
                                        d.Range.Start.Line, lines[d.Range.Start.Line + 1])

\* The scan is over and has reported a removed function, and a narrowed
\* deprecated-comment-slash diagnostic whose edit is wider than its range.
C12_RemovedAndNarrowed ==
    /\ pc = "apply" /\ applied = 0
    /\ \E n \in 1..Len(diagnostics) : diagnostics[n].Diagnostic.Code \in removedCodes
    /\ \E n \in 1..Len(diagnostics) :
          /\ hasFix(diagnostics[n])
          /\ diagnostics[n].Fix[1].Range # diagnostics[n].Diagnostic.Range

-----------------------------------------------------------------------------
(* C13: a fix-all action exactly when more than one diagnostic has an edit  *)

fixAllCount(acts) ==
    Cardinality({n \in 1..Len(acts) : acts[n].Kind = CodeActionKindSourceFixAll})

fixableCount(migrationDiags) ==
    Cardinality({n \in 1..Len(migrationDiags) : hasFix(migrationDiags[n])})

\* C13: whatever the requested diagnostics are, the returned actions hold
\* exactly one action of kind source.fixAll when the scan of the document has
\* more than one diagnostic with an edit, and none otherwise.
C13_FixAllPresence ==
    pc = "apply" =>
        fixAllCount(actions) = (IF fixableCount(diagnostics) > 1 THEN 1 ELSE 0)

\* Code actions were built, for no requested diagnostic, on a scan with two
\* or more diagnostics that have an edit.
C13_SeveralFixable ==
    pc = "apply" /\ request = <<>> /\ fixableCount(diagnostics) > 1

-----------------------------------------------------------------------------
(* C14: quick fixes are matched by code and range                           *)

sameIdentity(a, b) == a.Code = b.Code /\ a.Range = b.Range

\* The scan holds a diagnostic with an edit that has the code and range of d.
identified(d) ==
    \E n \in 1..Len(diagnostics) :
        hasFix(diagnostics[n]) /\ sameIdentity(diagnostics[n].Diagnostic, d)

isQuickFix(a) == a.Kind = CodeActionKindQuickFix

\* C14: the quick-fix actions are, in order, those of the requested
\* diagnostics for which the scan holds a diagnostic with an edit and the same
\* code, start line, start column, end line and end column; and two
\* diagnostics with the same key have the same code and the same coordinates.
C14_QuickFixIdentity ==
    pc = "apply" =>
        LET quick == SelectSeq(actions, isQuickFix)
            wanted == SelectSeq(request, identified)
        IN  /\ Len(quick) = Len(wanted)
            /\ \A n \in 1..Len(quick) : \A m \in 1..Len(wanted) :
                   n = m => sameIdentity(quick[n].Diagnostics[1], wanted[m])
            /\ \A n \in 1..Len(request) : \A m \in 1..Len(diagnostics) :
                   diagnosticKey(request[n]) = diagnosticKey(diagnostics[m].Diagnostic)
                       => sameIdentity(request[n], diagnostics[m].Diagnostic)

\* Code actions were built for requested diagnostics of which one is in the
\* scan with an edit and one is not.
C14_SomeIdentified ==
    /\ pc = "apply"
    /\ \E n \in 1..Len(request) : identified(request[n])
    /\ \E n \in 1..Len(request) : ~identified(request[n])

-----------------------------------------------------------------------------
(* C15: the fix-all action holds every edit once, last position first       *)

hasFixAll(acts) == \E n \in 1..Len(acts) : acts[n].Kind = CodeActionKindSourceFixAll

\* How many elements of the sequence edits are e.
editCount(edits, e) == Cardinality({n \in 1..Len(edits) : edits[n] = e})

\* The edits of the diagnostics that have one, in scan order.
scanEdits(migrationDiags) ==
    LET fixable == SelectSeq(migrationDiags, hasFix)
    IN  [n \in 1..Len(fixable) |-> fixable[n].Fix[1]]

notBefore(a, b) == a.Line > b.Line \/ (a.Line = b.Line /\ a.Character >= b.Character)

\* C15: the edits of the fix-all action are those of the scan's diagnostics
\* that have one, each as often as the scan has it, and no edit starts before
\* the edit that follows it in the list.
C15_FixAllComposition ==
    (pc = "apply" /\ hasFixAll(actions)) =>
        LET edits == fixAllEdits(actions)
            wanted == scanEdits(diagnostics)
        IN  /\ Len(edits) = Len(wanted)
            /\ \A n \in 1..Len(wanted) :
                   editCount(edits, wanted[n]) = editCount(wanted, wanted[n])
            /\ \A n \in 1..(Len(edits) - 1) :
                   notBefore(edits[n].Range.Start, edits[n + 1].Range.Start)

\* A fix-all action was built whose map iteration did not visit the edits last
\* position first.
C15_SortNeeded ==
    /\ pc = "apply" /\ hasFixAll(actions)
    /\ \E n \in 1..(Len(diagnostics) - 1) :
          /\ hasFix(diagnostics[n]) /\ hasFix(diagnostics[n + 1])
          /\ actions[Len(actions)].Diagnostics[1] = diagnostics[n].Diagnostic
          /\ actions[Len(actions)].Diagnostics[2] = diagnostics[n + 1].Diagnostic

-----------------------------------------------------------------------------
(* C16: applying the fix-all action leaves nothing to fix                   *)

\* C16: when the client has applied every edit of a fix-all action, in the
\* order given, the scan of the resulting text reports no diagnostic that has
\* an edit.
C16_FixAllResolves ==
    (pc = "apply" /\ hasFixAll(actions) /\ applied = Len(fixAllEdits(actions))) =>
        fixableCount(getMigrationDiagnostics(joinLines(doc))) = 0

\* The client has applied the two or more edits of a fix-all action.
C16_AllApplied ==
    pc = "apply" /\ hasFixAll(actions) /\ applied = Len(fixAllEdits(actions)) /\ applied > 1

-----------------------------------------------------------------------------
(* C17: the fixes that rewrite a call                                       *)

whiteSpace == {9, 10, 12, 13, 32}

RECURSIVE trimSpaces(_)
trimSpaces(s) ==
    IF s = <<>> THEN s
    ELSE IF Head(s) \in whiteSpace THEN trimSpaces(Tail(s))
    ELSE IF s[Len(s)] \in whiteSpace THEN trimSpaces(SubSeq(s, 1, Len(s) - 1))
    ELSE s

\* The argument of the call matched: what is between the parentheses after
\* the name, without the white space around it.
literalOf(matched, name) ==
    LET call == trimSpaces(SubSeq(matched, Len(name) + 1, Len(matched)))
    IN  trimSpaces(SubSeq(call, 2, Len(call) - 1))

castNames == {Bytes("time"), Bytes("duration"), Bytes("ip"), Bytes("net")}

\* The fix the rule named name is to give for the argument lit.
rewritten(name, lit) ==
    IF name = Bytes("grep")
    THEN IF Head(lit) = chSlash
         THEN Bytes("grep('") \o SubSeq(lit, 2, Len(lit) - 1) \o Bytes("', this)")
         ELSE Bytes("grep(") \o lit \o Bytes(", this)")
    ELSE IF name = Bytes("is") THEN Bytes("is(this, ") \o lit \o Bytes(")")
    ELSE IF name = Bytes("nest_dotted") THEN Bytes("nest_dotted(this)")
    ELSE lit \o Bytes("::") \o name

rewritingShapes == {"grep", "is", "emptyCall", "cast"}

\* The text the edit of md replaces, on the one-line document.
replacedText(md) ==
    Slice(text, md.Fix[1].Range.Start.Character, md.Fix[1].Range.End.Character)

\* C17: the new text of every edit of the rules grep, is, nest_dotted, time,
\* duration, ip and net is the rewriting of the argument between the
\* parentheses: grep(/P/) gives grep('P', this), grep(Q) with a quoted Q gives
\* grep(Q, this), is(<T>) gives is(this, <T>), nest_dotted() gives
\* nest_dotted(this), and X(S) with a quoted S gives S::X with the quotes of S
\* kept. The new text is the same whatever white space the matched call holds
\* before its parenthesis and around its argument, and it always differs from
\* the text it replaces.
C17_RewritesArgument ==
    pc = "apply" =>
        \A n \in 1..Len(diagnostics) :
            LET md == diagnostics[n]
                m == migrationOf(md.Diagnostic.Code)
            IN  (hasFix(md) /\ m.Shape \in rewritingShapes) =>
                    /\ md.Fix[1].NewText = rewritten(m.Name, literalOf(replacedText(md), m.Name))
                    /\ md.Fix[1].NewText # replacedText(md)

\* A call with white space before its parenthesis and around its argument was
\* reported by a rule that rewrites the argument.
C17_SpacedCall ==
    /\ pc = "apply"
    /\ \E n \in 1..Len(diagnostics) :
          LET md == diagnostics[n]
              m == migrationOf(md.Diagnostic.Code)
          IN  /\ hasFix(md) /\ m.Shape \in {"grep", "cast"}
              /\ Len(replacedText(md)) >=
                    Len(m.Name) + 5 + Len(literalOf(replacedText(md), m.Name))

-----------------------------------------------------------------------------
(* C18: the final newline                                                   *)

endsWithNewline(s) == Len(s) >= 1 /\ s[Len(s)] = chNL

\* C18: with InsertFinalNewline the formatted text ends with exactly one
\* newline; with TrimFinalNewlines and without InsertFinalNewline it does not
\* end with a newline.
C18_FinalNewline ==
    pc = "done" =>
        /\ options.InsertFinalNewline =>
              /\ endsWithNewline(result)
              /\ ~endsWithNewline(SubSeq(result, 1, Len(result) - 1))
        /\ (options.TrimFinalNewlines /\ ~options.InsertFinalNewline) =>
              ~endsWithNewline(result)

\* formatDocument has returned, with InsertFinalNewline and without
\* TrimFinalNewlines, on a text that ends with two newlines.
C18_BlankLinesAtEnd ==
    /\ pc = "done"
    /\ options.InsertFinalNewline /\ ~options.TrimFinalNewlines
    /\ Len(text) >= 2 /\ text[Len(text)] = chNL /\ text[Len(text) - 1] = chNL

-----------------------------------------------------------------------------
(* C19: the code actions are a function of the text and the request         *)

\* C19: the actions returned are those of every other call with the same
\* text and requested diagnostics: whatever order the iteration over the map
\* takes, it gives the same actions, with the same order of the diagnostics
\* and of the edits in the fix-all action.
C19_Deterministic ==
    pc = "apply" =>
        \A order \in iterationOrders(fixableDiags(diagnostics)) :
            actions = getCodeActionsForDiagnostics(text, request, order)

\* A fix-all action was returned whose diagnostics are listed in the order of
\* the scan.
C19_FixAllInScanOrder ==
    /\ pc = "apply" /\ hasFixAll(actions)
    /\ actions[Len(actions)].Diagnostics =
          [n \in 1..Len(diagnostics) |-> diagnostics[n].Diagnostic]

-----------------------------------------------------------------------------
(* C20: the map of open documents follows the notifications                 *)

isDidOpen(n) == n.Method = "textDocument/didOpen"
isDidChange(n) == n.Method = "textDocument/didChange"
isDidClose(n) == n.Method = "textDocument/didClose"

\* The notifications for uri that say something about its content: every one
\* but a didChange with an empty contentChanges list.
telling(uri) ==
    {n \in 1..Len(received) :
        /\ received[n].URI = uri
        /\ ~(isDidChange(received[n]) /\ received[n].ContentChanges = <<>>)}

\* The content notification n carries.
contentOf(n) ==
    IF isDidOpen(n) THEN n.Text ELSE n.ContentChanges[Len(n.ContentChanges)].Text

\* C20: Server.documents holds, for every URI, the content of the most recent
\* didOpen or non-empty didChange for it (the last element of its
\* contentChanges), and no entry when there is none or when a didClose for
\* the URI came after it; so an empty didChange and the notifications for
\* other URIs do not change the entry.
C20_DocumentsLifecycle ==
    \A uri \in URIs :
        LET ns == telling(uri)
            latest == CHOOSE n \in ns : \A o \in ns : o <= n
        IN  IF ns = {} \/ isDidClose(received[latest])
            THEN uri \notin DOMAIN documents
            ELSE uri \in DOMAIN documents /\ documents[uri] = contentOf(received[latest])

\* The server has handled a didChange with two different changes and a
\* didClose, and a document is open.
C20_ChangedAndClosed ==
    /\ documents # <<>>
    /\ \E n \in 1..Len(received) :
          /\ isDidChange(received[n]) /\ Len(received[n].ContentChanges) = 2
          /\ received[n].ContentChanges[1] # received[n].ContentChanges[2]
    /\ \E n \in 1..Len(received) : isDidClose(received[n])

-----------------------------------------------------------------------------
(* C21: where a slash starts a regex literal                                *)

openingBrackets == {strLParen, strLBracket, strLBrace}

\* The previous tokens after which the slash is to start a regex literal.
startsValue(tok) ==
    \/ tok.typ \in {"tokWhitespace", "tokNewline", "tokPipe", "tokOperator", "tokKeyword"}
    \/ tok.typ = "tokPunctuation" /\ tok.value \in openingBrackets \cup {strComma, strColon}

\* The previous tokens after which the slash is to be an operator.
endsValue(tok) ==
    \/ tok.typ \in {"tokIdentifier", "tokNumber", "tokString", "tokComment", "tokRegexp"}
    \/ tok.typ = "tokPunctuation" /\ tok.value \in closingBrackets

\* The scan stands on a slash that does not open a block comment and that a
\* closing unescaped slash follows on the same line.
atClosedSlash ==
    /\ pc = "tokenize" /\ i < Len(text) /\ At(text, i) = chSlash
    /\ ~HasPrefixAt(text, i, Bytes("/*"))
    /\ regexCloses(text, i)

\* C21: the iteration that scans such a slash appends one regex-literal token
\* when the slash is at the start of the input or the previous token is
\* whitespace, a newline, a pipe, an operator, a keyword, an opening bracket,
\* a comma or a colon, and the one-byte operator after an identifier, number,
\* string, comment, regex or closing bracket.
C21_RegexStart ==
    [][atClosedSlash =>
          LET tok == tokens'[Len(tokens')]
          IN  /\ (tokens = <<>> \/ startsValue(tokens[Len(tokens)])) =>
                    tok.typ = "tokRegexp"
              /\ (tokens # <<>> /\ endsValue(tokens[Len(tokens)])) =>
                    tok = Token("tokOperator", <<chSlash>>)]_vars

\* tokenize has lexed a regex literal directly after an opening parenthesis.
C21_RegexAfterParen ==
    /\ pc = "format"
    /\ \E n \in 2..Len(tokens) :
          tokens[n].typ = "tokRegexp" /\ tokens[n - 1].value = strLParen

(***************************************************************************)
(* C22: an unterminated block comment is one token to the end of the input *)
(***************************************************************************)

\* A block comment closer starts at or after offset n of s.
closerFrom(s, n) == \E c \in n..(Len(s) - 2) : HasPrefixAt(s, c, Bytes("*/"))

\* tokenize stands on a block comment opener that no closer follows.
atUnterminatedComment ==
    /\ pc = "tokenize"
    /\ i < Len(text)
    /\ HasPrefixAt(text, i, Bytes("/*"))
    /\ ~closerFrom(text, i + 2)

\* C22: when tokenize reaches a block comment opener that no closer follows,
\* the step emits one comment token holding every byte from the opener
\* through the last byte of the input, and the loop is over after it (no
\* further token follows).
C22_UnterminatedComment ==
    [][atUnterminatedComment =>
          /\ tokens' = Append(tokens, Token("tokComment", Slice(text, i, Len(text))))
          /\ i' = Len(text)]_vars

\* tokenize has returned a comment token that opens a block comment and that
\* holds at least one byte after the opener, in an input without a closer.
C22_OpenCommentLexed ==
    /\ pc = "format"
    /\ ~closerFrom(text, 0)
    /\ \E n \in 1..Len(tokens) :
          /\ tokens[n].typ = "tokComment"
          /\ HasPrefixAt(tokens[n].value, 0, Bytes("/*"))
          /\ Len(tokens[n].value) > 2

(***************************************************************************)
(* C23: all three bracket kinds raise and lower the indent depth           *)
(***************************************************************************)

\* formatTokens is about to handle a punctuation token out of the set values.
atPunctuation(values) ==
    /\ pc = "format"
    /\ k < Len(tokens)
    /\ tokens[k + 1].typ = "tokPunctuation"
    /\ tokens[k + 1].value \in values

\* C23: handling an opening bracket (, [ or { raises the indent depth by one
\* and handling a closing bracket ), ] or } lowers it by one, never below 0.
C23_BracketIndent ==
    [][/\ atPunctuation(openingBrackets) => indent' = indent + 1
       /\ atPunctuation(closingBrackets) =>
             indent' = IF indent > 0 THEN indent - 1 ELSE 0]_vars

\* formatTokens has handled an opening and then a closing bracket: the depth
\* went up to one and is back at zero.
C23_OpenedAndClosed ==
    /\ pc = "format"
    /\ k >= 2
    /\ indent = 0
    /\ \E n \in 1..(k - 1) :
          /\ tokens[n].value \in openingBrackets
          /\ tokens[k].typ = "tokPunctuation"
          /\ tokens[k].value \in closingBrackets

(***************************************************************************)
(* C24: one space after a comma, none before a newline                     *)
(***************************************************************************)

\* The positions (from 1) of the comma bytes of s, and of the comma tokens of
\* toks.
commaBytes(s) == {p \in 1..Len(s) : s[p] = Ord[","]}
commaTokens(toks) ==
    {n \in 1..Len(toks) : toks[n] = Token("tokPunctuation", strComma)}

\* The n-th smallest member of the set of numbers S.
nth(S, n) == CHOOSE x \in S : Cardinality({y \in S : y < x}) = n - 1

\* The number of space bytes that directly follow position p of s.
RECURSIVE spacesAfter(_, _)
spacesAfter(s, p) ==
    IF p < Len(s) /\ s[p + 1] = chSP THEN 1 + spacesAfter(s, p + 1) ELSE 0

\* Every comma byte of the input is a comma token: none lies in a regex
\* literal, string or comment.
commasAreTokens ==
    \A n \in 1..Len(tokens) :
        tokens[n].typ # "tokPunctuation" =>
            \A c \in 1..Len(tokens[n].value) : tokens[n].value[c] # Ord[","]

\* C24: in the text formatTokens returns, a comma token that a newline token
\* follows has no space after it, and a comma token that any other token
\* follows has exactly one space after it.
C24_CommaSpacing ==
    (pc = "done" /\ commasAreTokens) =>
        \A n \in 1..Cardinality(commaTokens(tokens)) :
            LET c == nth(commaTokens(tokens), n)
                p == nth(commaBytes(result), n)
            IN  c < Len(tokens) =>
                    spacesAfter(result, p) =
                        IF tokens[c + 1].typ = "tokNewline" THEN 0 ELSE 1

\* formatTokens has returned a text with two commas, one followed by a newline
\* token and one followed by another token.
C24_BothCommas ==
    /\ pc = "done"
    /\ commasAreTokens
    /\ \E c, d \in commaTokens(tokens) :
          /\ c < Len(tokens) /\ tokens[c + 1].typ = "tokNewline"
          /\ d < Len(tokens) /\ tokens[d + 1].typ # "tokNewline"

(***************************************************************************)
(* C25: one space on each side of an operator                              *)
(***************************************************************************)

\* tok is an operator token that is not one of the tight operators.
isSpacedOperator(tok) == tok.typ = "tokOperator" /\ tok.value \notin tightOperators

\* The number of space bytes at the end of s.
RECURSIVE spacesAtEnd(_)
spacesAtEnd(s) ==
    IF Len(s) > 0 /\ s[Len(s)] = chSP THEN 1 + spacesAtEnd(SubSeq(s, 1, Len(s) - 1)) ELSE 0

\* The index of the last token of toks up to index n that is not whitespace,
\* 0 when there is none.
RECURSIVE lastWritten(_, _)
lastWritten(toks, n) ==
    IF n = 0 \/ toks[n].typ # "tokWhitespace" THEN n ELSE lastWritten(toks, n - 1)

\* formatTokens is about to handle a token that is written on the output line
\* of the token before it.
atNeighbour ==
    /\ pc = "format"
    /\ k < Len(tokens)
    /\ ~lineStart
    /\ tokens[k + 1].typ \notin {"tokWhitespace", "tokNewline", "tokPipe"}
    /\ lastWritten(tokens, k) > 0

\* The number of spaces the output has between the token formatTokens handles
\* in this step and what was written before it.
gapWritten == spacesAtEnd(result) + spacesAfter(result', Len(result))

\* C25: when one of two neighbouring tokens of an output line is an operator
\* other than the tight ones, exactly one space lies between them, and none
\* when the operator directly follows an opening bracket or a closing bracket
\* or comma directly follows the operator. The neighbour may be an operator.
C25_OperatorSpacing ==
    [][atNeighbour =>
          LET tok == tokens[k + 1]
              prev == tokens[lastWritten(tokens, k)]
              afterOpening == isSpacedOperator(tok) /\ prev.typ = "tokPunctuation"
                              /\ prev.value \in openingBrackets
              beforeClosing == isSpacedOperator(prev) /\ tok.typ = "tokPunctuation"
                               /\ tok.value \in closingBrackets \cup {strComma}
          IN  (isSpacedOperator(tok) \/ isSpacedOperator(prev)) =>
                  gapWritten = IF afterOpening \/ beforeClosing THEN 0 ELSE 1]_vars

\* formatTokens has written an operator between two identifiers of one line.
C25_OperatorBetweenWords ==
    /\ pc = "format"
    /\ k >= 3
    /\ tokens[k].typ = "tokIdentifier"
    /\ isSpacedOperator(tokens[k - 1])
    /\ tokens[k - 2].typ = "tokIdentifier"

(***************************************************************************)
(* C26: no space on either side of a tight operator                        *)
(***************************************************************************)

\* tok is one of the tokens ., ..., :: and -> (tokenize gives the single dot
\* the punctuation type).
isTight(tok) ==
    tok.typ \in {"tokOperator", "tokPunctuation"} /\ tok.value \in tightOperators

\* tok is an identifier, number, string or keyword.
isOperand(tok) == tok.typ \in {"tokIdentifier", "tokNumber", "tokString", "tokKeyword"}

\* C26: when a tight operator and an identifier, number, string or keyword
\* directly adjoin in the input, formatTokens writes no space between them.
C26_TightOperators ==
    [][(/\ pc = "format"
        /\ k >= 1
        /\ k < Len(tokens)
        /\ \/ isTight(tokens[k + 1]) /\ isOperand(tokens[k])
           \/ isOperand(tokens[k + 1]) /\ isTight(tokens[k]))
          => gapWritten = 0]_vars

\* formatTokens has written a tight operator that adjoins an identifier on
\* each side in the input.
C26_TightBetweenWords ==
    /\ pc = "format"
    /\ k >= 3
    /\ tokens[k].typ = "tokIdentifier"
    /\ isTight(tokens[k - 1])
    /\ tokens[k - 2].typ = "tokIdentifier"

(***************************************************************************)
(* textDocument/formatting (handlers.go, lines 455-518)                    *)
(***************************************************************************)

MaxDocLen == 4
MaxRequests == 1

DocAlphabet == {Ord["a"], chSP, chNL}

\* The formatting options a client sends.
RequestOptions ==
    {[defaultOptions EXCEPT !.InsertFinalNewline = b] : b \in BOOLEAN}
        \cup {[defaultOptions EXCEPT !.InsertSpaces = TRUE, !.TabSize = -1]}

isDataFile(uri) == HasSuffix(toLower(Bytes(uri)), Bytes(".sup"))

\* splitLines of handlers.go, whose loop is at lines 507-512: from is start
\* and n is i.
RECURSIVE handlerLines(_, _, _)
handlerLines(s, from, n) ==
    IF n >= Len(s) THEN (IF from < Len(s) THEN <<Slice(s, from, Len(s))>> ELSE <<>>)
    ELSE IF At(s, n) = chNL THEN <<Slice(s, from, n)>> \o handlerLines(s, n + 1, n + 1)
    ELSE handlerLines(s, from, n + 1)

\* splitLines of handlers.go (lines 501-518); strings.Split is splitLines above.
handlerSplitLines(s) == IF s = <<>> THEN <<>> ELSE handlerLines(s, 0, 0)

\* handleFormatting, lines 485-498: the edit that replaces the document.
wholeDocument(stored, formatted) ==
    LET lines == handlerSplitLines(stored)
        lastLineLen == IF Len(lines) > 0 THEN Len(lines[Len(lines)]) ELSE 0
    IN  <<TextEdit([Start |-> Position(0, 0),
                    End |-> Position(Len(lines) - 1, lastLineLen)],
                   formatted)>>

\* handleFormatting, lines 480-498
formattingEdits(stored, formatted) ==
    IF formatted = stored THEN <<>> ELSE wholeDocument(stored, formatted)

\* handleFormatting for a query file: the Result of its response.
\* handleFormatting panics: formatDocument is called, on a stored document,
\* and panics.
formattingPanics(docs, uri, opts) == uri \in DOMAIN docs /\ indentString(opts) = Panic

\* A panic of formatDocument is not recovered: there is no result.
formattingResult(docs, uri, opts) ==
    IF uri \notin DOMAIN docs THEN <<>>
    ELSE IF formattingPanics(docs, uri, opts) THEN Panic
    ELSE formattingEdits(docs[uri], formatDocument(docs[uri], opts))

\* NewServer() has returned and the client has opened at most one document.
EditInit ==
    /\ \/ documents = <<>>
       \/ \E n \in 0..MaxDocLen : \E content \in [1..n -> DocAlphabet] :
             documents = store(<<>>, "file:///a.spq", content)
    /\ received = <<>> /\ sent = <<>>
    /\ text = <<>> /\ options = defaultOptions /\ pc = "serve"
    /\ lexIdle /\ fmtIdle /\ migIdle

\* A textDocument/formatting request for a query file is handled; a panic of
\* the handler ends the server without a response.
handleFormatting ==
    /\ pc = "serve" /\ Len(sent) < MaxRequests
    /\ \E uri \in URIs, opts \in RequestOptions :
          /\ ~isDataFile(uri)
          /\ received' = Append(received, [Method |-> "textDocument/formatting",
                                           URI |-> uri, Options |-> opts])
          /\ IF formattingPanics(documents, uri, opts)
             THEN pc' = "panic" /\ sent' = sent
             ELSE /\ pc' = pc
                  /\ sent' = Append(sent, formattingResult(documents, uri, opts))
    /\ UNCHANGED <<text, options, lexVars, fmtVars, migVars, documents>>

EditNext == handleFormatting

EditSpec == EditInit /\ [][EditNext]_vars

(***************************************************************************)
(* C27: the edit of a formatting response replaces the whole document      *)
(***************************************************************************)

\* The number of bytes of the first n lines of lines, each with its newline.
RECURSIVE lengthOfLines(_, _)
lengthOfLines(lines, n) ==
    IF n = 0 THEN 0 ELSE lengthOfLines(lines, n - 1) + Len(lines[n]) + 1

\* The byte offset in s of a position, as the client that holds s resolves it:
\* a character beyond its line is the end of the line, a line beyond the last
\* is the end of s.
offsetOf(s, pos) ==
    LET lines == splitLines(s)
    IN  IF pos.Line < 0 THEN 0
        ELSE IF pos.Line >= Len(lines) THEN Len(s)
        ELSE lengthOfLines(lines, pos.Line)
             + min(IF pos.Character < 0 THEN 0 ELSE pos.Character, Len(lines[pos.Line + 1]))

\* The text the client has after it applied the edit e to s.
replaced(s, e) ==
    Slice(s, 0, offsetOf(s, e.Range.Start)) \o e.NewText
        \o Slice(s, offsetOf(s, e.Range.End), Len(s))

\* The position of the end of s: the index of its last line and that line's
\* length.
endOf(s) ==
    LET lines == splitLines(s)
    IN  Position(Len(lines) - 1, Len(lines[Len(lines)]))

\* edits is one edit that spans stored and turns it into formatted.
replacesAll(stored, formatted, edits) ==
    /\ Len(edits) = 1
    /\ edits[1].Range.Start = Position(0, 0)
    /\ edits[1].Range.End = endOf(stored)
    /\ replaced(stored, edits[1]) = formatted

\* edits is what the response has to hold for the text stored and its
\* formatted form.
answers(stored, formatted, edits) ==
    IF formatted = stored THEN edits = <<>> ELSE replacesAll(stored, formatted, edits)

\* C27: the result of a formatting response is empty when the document is not
\* open or the formatted text equals the stored text; else it is exactly one
\* edit from (0,0) to the end of the stored text, and the stored text with the
\* edit applied is the formatted text.
C27_WholeDocumentEdit ==
    \A n \in 1..Len(sent) :
        LET uri == received[n].URI
        IN  IF uri \notin DOMAIN documents THEN sent[n] = <<>>
            ELSE answers(documents[uri],
                         formatDocument(documents[uri], received[n].Options), sent[n])

\* The server has answered a formatting request with an edit for a stored text
\* that ends with a line of several bytes.
C27_EditReturned ==
    /\ Len(sent) = 1
    /\ Len(sent[1]) = 1
    /\ sent[1][1].Range.End.Character > 1

(***************************************************************************)
(* C28: no deprecated-comment-slash diagnostic inside a string literal     *)
(***************************************************************************)

\* The quote byte of the string literal that is open at offset n of line, 0
\* when none is: a scan from offset from, where open is the quote byte of the
\* literal open there. A backslash in a literal escapes the byte after it.
RECURSIVE openQuote(_, _, _, _)
openQuote(line, from, open, n) ==
    IF from >= n THEN open
    ELSE IF open = 0
         THEN openQuote(line, from + 1,
                        IF At(line, from) \in {chSQuote, chDQuote} THEN At(line, from) ELSE 0, n)
    ELSE IF At(line, from) = chBackslash THEN openQuote(line, from + 2, open, n)
    ELSE openQuote(line, from + 1, IF At(line, from) = open THEN 0 ELSE open, n)

\* The two bytes of line from offset n on lie in a string literal with its
\* closing quote on the line.
inString(line, n) ==
    LET q == openQuote(line, 0, 0, n)
    IN  /\ q # 0
        /\ openQuote(line, 0, 0, n + 2) = q
        /\ \E c \in (n + 2)..(Len(line) - 1) : openQuote(line, 0, 0, c + 1) = 0

\* C28: no deprecated-comment-slash diagnostic of getMigrationDiagnostics has
\* a range whose two slashes lie inside a single- or double-quoted string
\* literal of its line.
C28_NoSlashInString ==
    \A n \in 1..Len(diagnostics) :
        LET d == diagnostics[n].Diagnostic
            line == splitLines(text)[d.Range.Start.Line - firstLine + 1]
        IN  d.Code = "deprecated-comment-slash" =>
                ~inString(line, d.Range.End.Character - 2)

\* getMigrationDiagnostics has scanned a line with two slashes in a string
\* literal.
C28_SlashesInStringScanned ==
    /\ pc # "scan"
    /\ \E n \in 0..(Len(text) - 2) :
          HasPrefixAt(text, n, Bytes("//")) /\ inString(text, n)

(***************************************************************************)
(* C29: formatDocument changes only whitespace                             *)
(***************************************************************************)

\* The input bytes of the tokens of s from offset n on, whitespace and newline
\* tokens left out; toks are the tokens tokenize has before offset n.
RECURSIVE writtenFrom(_, _, _)
writtenFrom(s, n, toks) ==
    IF n >= Len(s) THEN <<>>
    ELSE LET r == tokenizeStep(s, n, toks)
         IN  (IF r.tok.typ \in {"tokWhitespace", "tokNewline"} THEN <<>>
              ELSE <<Slice(s, n, r.next)>>)
             \o writtenFrom(s, r.next, Append(toks, r.tok))

blanks == {chSP, chTab, chCR, chNL}

\* The first offset of s at or after n that holds no blank.
RECURSIVE skipBlanks(_, _)
skipBlanks(s, n) == IF n < Len(s) /\ At(s, n) \in blanks THEN skipBlanks(s, n + 1) ELSE n

\* s from offset n on is the byte strings pieces[j], pieces[j + 1], ... in
\* order, with nothing but blanks before, between and after them.
RECURSIVE blanksBetween(_, _, _, _)
blanksBetween(s, n, pieces, j) ==
    LET from == skipBlanks(s, n)
    IN  IF j > Len(pieces) THEN from = Len(s)
        ELSE /\ HasPrefixAt(s, from, pieces[j])
             /\ blanksBetween(s, from + Len(pieces[j]), pieces, j + 1)

\* C29: the text formatDocument returns holds the bytes of the input's
\* tokens other than whitespace and newlines, unchanged and in order, and
\* besides them only spaces, tabs, carriage returns and newlines outside those
\* tokens: no other byte is added, dropped, reordered or re-encoded.
C29_OnlyWhitespace ==
    pc = "done" => blanksBetween(result, 0, writtenFrom(text, 0, <<>>), 1)

\* formatDocument has returned a text that differs from the one it was given
\* and that holds several tokens, a regex literal among them.
C29_Reformatted ==
    /\ pc = "done"
    /\ result # text
    /\ Len(tokens) > 2
    /\ \E n \in 1..Len(tokens) : tokens[n].typ = "tokRegexp"

(***************************************************************************)
(* C30: a token at the start of a line is indented by the indent depth     *)
(***************************************************************************)

\* formatTokens is about to write a token at the start of an output line.
atLineStart ==
    /\ pc = "format"
    /\ k < Len(tokens)
    /\ lineStart
    /\ tokens[k + 1].typ \notin {"tokWhitespace", "tokNewline"}

\* C30: a token written at the start of an output line follows exactly depth
\* copies of the indent unit, where depth is the indent depth before the step,
\* and for a closing bracket ), ] or } the depth the step leaves.
C30_LineStartIndent ==
    [][atLineStart =>
          LET tok == tokens[k + 1]
              closing == tok.typ = "tokPunctuation" /\ tok.value \in closingBrackets
              depth == IF closing THEN indent' ELSE indent
          IN  HasPrefixAt(result', Len(result),
                          Repeat(indentString(options), depth) \o tok.value)]_vars

\* formatTokens has written an identifier at the start of a line inside a
\* bracket, after one indent unit.
C30_IndentedLine ==
    /\ pc = "format"
    /\ indent = 1
    /\ HasSuffix(result, <<chNL, chTab, Ord["a"]>>)

====
